---- MODULE Spec2Model ----
(***************************************************************************)
(* Erasure-coding engine of AIStore: the mountpath put jogger               *)
(* (ec/putjogger.go), the mountpath get jogger (ec/getjogger.go), the GET   *)
(* path of the target that calls for a restore, the responder, the PUT     *)
(* path, the paths of the files and the validation of the EC properties.   *)
(*                                                                         *)
(* The module holds nine state machines over disjoint variables:            *)
(*   SpecRun     putJogger.run, the two-priority loop of the put jogger     *)
(*   Spec        putJogger.processRequest for one request, statement by     *)
(*               statement, with the transport's send-completion callbacks  *)
(*   SpecRestore getJogger.restore for one object                           *)
(*               (FairSpecWait: restoreEncoded alone, with fairness)        *)
(*   SpecGet     getJogger.run and getJogger.ec, the restore goroutines     *)
(*   SpecObj     getObjInfo.getObject of the target: a GET with checksum    *)
(*               validation and recovery                                    *)
(*   SpecRespond XactRespond.DispatchReq and DispatchResp, the handlers of  *)
(*               the requests and responses of the other targets            *)
(*   SpecPut     putObjInfo.putObject and the encode it ends with           *)
(*   SpecFqn     the path of a file built by MakePathFQN and parsed back    *)
(*   SpecBp      ECConf.ValidateAsProps for a bucket of a cluster           *)
(***************************************************************************)
EXTENDS Integers, Sequences, FiniteSets, TLC

(***************************************************************************)
(* State                                                                    *)
(***************************************************************************)
\* the state of putJogger.run (part 1)
VARIABLES
    putCh,      \* c.putCh: the live queue, a FIFO of requests
    xactCh,     \* c.xactCh: the background (ec-encode) queue
    stopCh,     \* TRUE while stop() is blocked sending on c.stopCh
    loopPc,     \* where run() stands: "first" select, "second" select, "exited"
    putsDone,   \* the local putsDone of run()
    liveRun,    \* history: live requests taken by the first select since run()
                \* last stood at the second select
    lastTaken   \* history: the queue the latest step of run() took from

runVars == <<putCh, xactCh, stopCh, loopPc, putsDone, liveRun, lastTaken>>

\* the state of putJogger.processRequest (part 2)
VARIABLES
    pc,         \* the statement processRequest (and what it calls) stands at
    req,        \* the request: [Action, IsCopy, ErrCh (req.ErrCh != nil)]
    ecConf,     \* lom.Bprops().EC: [DataSlices, ParitySlices]
    cksumType,  \* lom.CksumConf().Type: "none" or "xxhash"
    lomVersion, \* lom.Version()
    targetCnt,  \* len(smap.Tmap) as encode read it (0: not read yet)
    meta,       \* the Metadata encode builds and shares with the sends
    metaFile,   \* the local MD sidecar: NoMeta (no file) or the Metadata written
    mdWritten,  \* history: the local MD sidecar was written by this encode
    targets,    \* sendSlices: the list HrwTargetList returned
    slices,     \* sendSlices: per slice, its checksum ("nil": none)
    counter,    \* sendSlices: the atomic counter the callbacks share
    idx,        \* sendSlices: i of the copySlice loop
    sent,       \* the sends handed to the transport (writeRemote calls)
    cbDone,     \* the sends whose completion callback has run
    decPending, \* DecPending calls made for this request
    err,        \* what c.ec returned: "nil" or the kind of error
    cleanups,   \* calls of c.cleanup
    delBcast,   \* DEL broadcasts handed to the transport
    ioErrors,   \* history: the kinds of failure met while encoding
    errCh,      \* req.ErrCh: the results sent on it, in order
    errChClosed, \* the calls of close(req.ErrCh)
    refCnt,     \* sendSlices: mainObj.refCnt, the count of the reader of the
                \* main object that the data slices share
    freed,      \* how many times the reader of mainObj was freed
    cleanupLog  \* history: the calls of c.cleanup, each [fqnOk, rmOk, sendOk
                \* (how HrwFQN, os.RemoveAll and Send ended), rm (the content
                \* types os.RemoveAll was called for, in order)]

encVars == <<pc, req, ecConf, cksumType, lomVersion, targetCnt, meta, metaFile,
             mdWritten, targets, slices, counter, idx, sent, cbDone, decPending,
             err, cleanups, delBcast, ioErrors, errCh, errChClosed,
             refCnt, freed, cleanupLog>>

\* the state of getJogger.restore (part 3)
VARIABLES
    rpc,         \* the statement restore (and what it calls) stands at
    object,      \* the bytes of the object as it was last PUT (version "a")
    rConf,       \* the EC configuration of the object: [Data, Parity]
    rIsCopy,     \* the object was replicated, not encoded
    toDisk,      \* useDisk(0): slices are received into workfiles, not memory
    asked,       \* requestMeta: the peers whose goroutine has ended
    metas,       \* requestMeta: peer -> the Metadata it returned
    chk,         \* requestMeta: object checksum -> its count
    chkVal,      \* requestMeta: the object checksum with the highest count
    chkMax,      \* requestMeta: that count
    arrivals,    \* history: the object checksums of the responses, in the
                 \* order the goroutines took the mutex
    nodes,       \* requestMeta's result: the peers kept
    rmeta,       \* requestMeta's result: the object's Metadata
    rslices,     \* requestSlices: per slice id, what was received
    idToNode,    \* requestSlices: slice id -> the peer it was requested from
    requested,   \* history: the peers a slice or a replica was requested from
    writers,     \* the peers whose writer is registered with the xaction
    sinks,       \* the peers whose sink (SGL, or file handle and workfile) is
                 \* allocated and neither freed nor handed to the upload
    rreader,     \* copyMissingReplicas: the reader it was given, "none", "sgl" or
                 \* "file"
    rfreed,      \* history: the calls of freeObject on that reader
    restored,    \* restoreMainObj: slice id -> the bytes rebuilt for it
    upPc,        \* the goroutine of uploadRestoredSlices: "none", "started",
                 \* "returned"
    upCounter,   \* uploadRestoredSlices: the atomic counter the callbacks share
    workfile,    \* restoreReplicated: the bytes received into the workfile
                 \* (to disk) or the SGL (in memory); <<>>: none
    replica,     \* the local main replica (<<>>: none)
    mainMD,      \* the local MD sidecar of the main replica
    rsent,       \* the sends handed to the transport (writeRemote calls)
    rcbDone,     \* the sends whose completion callback has run
    rdecPending, \* DecPending calls made by restore and by its callbacks
    rerr,        \* what restore returned: "nil" or the kind of error
    rioErrors    \* history: the kinds of failure met while restoring

resVars == <<rpc, object, rConf, rIsCopy, toDisk, asked, metas, chk, chkVal,
             chkMax, arrivals, nodes, rmeta, rslices, idToNode, requested,
             writers, sinks, rreader, rfreed, restored, upPc, upCounter, workfile, replica,
             mainMD, rsent, rcbDone, rdecPending, rerr, rioErrors>>

\* the state of getJogger.run and getJogger.ec (part 4)
VARIABLES
    workCh,      \* c.workCh: the queue of requests, each [Action, Uname]
    gReq,        \* the request c.ec was called with, while run() stands in it
    gStopCh,     \* TRUE while stop() is blocked sending on c.stopCh
    gPc,         \* where run() stands: "select", "ec" (in c.ec), "exited"
    gAsked,      \* history: the requests ever sent on c.workCh
    sema,        \* c.sema: the number of tokens in the channel
    jobID,       \* c.jobID
    jobs,        \* c.jobs: the ids of the jobs in the map
    gor,         \* job id -> where its restore goroutine stands
    gLIF,        \* job id -> req.LIF.Uname, the object of its request
    gErrCh,      \* job id -> what its callback sent on req.ErrCh
    gDecPending  \* DecPending calls made by c.ec and its goroutines

getVars == <<workCh, gReq, gStopCh, gPc, gAsked, sema, jobID, jobs, gor, gLIF,
             gErrCh, gDecPending>>

\* the state of getObjInfo.getObject (part 5)
VARIABLES
    goPc,        \* where getObject stands: "do", "recover" (the call of
                 \* tryRecoverObject, at its label retry), "coldget", "get", "done"
    goCfg,       \* the bucket and the object: [ais, hasCopies, ecEnabled,
                 \* validate (ValidateWarmGet)]
    goFile,      \* the file at lom.FQN: "good" (its checksum is that of the
                 \* LOM), "bad" or "absent"
    goCopy,      \* the local copies of the object: "good", "bad" or "absent"
    goRetried,   \* getObject: retried
    goColdGet,   \* getObject: coldGet
    recRetried,  \* tryRecoverObject: retried
    goErr,       \* what getObject returned: "nil" or the kind of error
    goRounds,    \* history: the recovery attempts of this GET (2: two or more)
    goFailedAfter, \* history: a checksum failure followed a recovery attempt
    goRemoved,   \* history: "none", or how lom.Remove of the corrupted
                 \* object ended: "ok", "failed"
    goFile0,     \* history: the file at lom.FQN when the GET began
    goSent,      \* history: "none", or the content finalize sent to the
                 \* client: "good", "bad"
    goHeld,      \* the shared locks of the object this GET holds
    goBadUnlock  \* history: the GET called Unlock while it held no lock

objVars == <<goPc, goCfg, goFile, goCopy, goRetried, goColdGet, recRetried,
             goErr, goRounds, goFailedAfter, goRemoved, goFile0, goSent,
             goHeld, goBadUnlock>>

\* the state of XactRespond (part 6)
VARIABLES
    ctFiles,     \* the local files of the object, by content type: "mt" (the
                 \* MD, MetaType), "ob" (the replica, fs.ObjectType), "ec"
                 \* (the slice, SliceType) -> the file exists
    rspPending,  \* IncPending calls less DecPending calls
    rspIncs,     \* history: the IncPending calls of the responder
    rspDecs,     \* history: the DecPending calls of the responder
    rspInFlight, \* the sends of dataResponse whose callback has not yet run
    rspObjects,  \* the calls of r.ObjectsInc
    rspBytes,    \* the sum of r.BytesAdd
    drained,     \* the calls of cmn.DrainReader
    rmTried,     \* history: the content types the last DEL called
                 \* os.RemoveAll for, in order
    rspLast,     \* history: the last request handled: [act, isSlice, hasMeta,
                 \* err ("nil" or the kind of error the responder logged)]
    rspHandled   \* history: the requests and responses handled

rspVars == <<ctFiles, rspPending, rspIncs, rspDecs, rspInFlight, rspObjects, rspBytes, drained,
             rmTried, rspLast, rspHandled>>

\* the state of a target that handles PUTs of one object (part 7)
VARIABLES
    poCksum,     \* lom.Cksum() of the stored object: "" when the target has
                 \* no object, else the checksum of its content
    poMD,        \* the local MD sidecar: "none" or the ObjCksum in it
    poWrites,    \* the object files written and renamed (writeToFile, then
                 \* cmn.Rename in tryFinalize)
    poMDWrites,  \* the MD files written by encode
    poSends,     \* the times encode handed slices or replicas to the
                 \* transport
    poOps,       \* the PUTs and the encodes handled
    poLast       \* history: the last operation: [op, cksumToUse, err]

putVars == <<poCksum, poMD, poWrites, poMDWrites, poSends, poOps, poLast>>

\* the state of a build and parse of one path (part 8)
VARIABLES
    fqMpaths,    \* the registered mountpaths (fs.Add), each a string
    fqArgs,      \* the arguments of MakePathFQN: [mpath, bck, contentType,
                 \* objName]
    fqn,         \* the path built, a string; <<>> before it is built
    parsedFQN,   \* what ParseFQN returned: [err, mpath, bck, contentType,
                 \* objName]
    fqPc         \* "make", "parse", "done"; "idle" in the other parts

fqnVars == <<fqMpaths, fqArgs, fqn, parsedFQN, fqPc>>

\* the state of a validation of bucket properties (part 9)
VARIABLES
    bpConf,      \* the ECConf validated: [Enabled, ObjSizeLimit, DataSlices,
                 \* ParitySlices, BatchSize]
    bpTargetCnt, \* args.TargetCnt
    bpErr,       \* what ValidateAsProps returned: "nil", "invalid" (an
                 \* error of Validate), "insufficient" (an error), "soft" (a
                 \* SoftError); "none" before it has returned
    bpPc         \* "validate", "done"; "idle" in the other parts

bpVars == <<bpConf, bpTargetCnt, bpErr, bpPc>>

\* what a step of part 1 leaves alone
notRunVars == <<encVars, resVars, getVars, objVars, rspVars, putVars, fqnVars,
                bpVars>>

\* what a step of part 2 leaves alone
notEncVars == <<runVars, resVars, getVars, objVars, rspVars, putVars, fqnVars,
                bpVars>>

\* what a step of part 3 leaves alone
notResVars == <<runVars, encVars, getVars, objVars, rspVars, putVars, fqnVars,
                bpVars>>

\* what a step of part 4 leaves alone
notGetVars == <<runVars, encVars, resVars, objVars, rspVars, putVars, fqnVars,
                bpVars>>

\* what a step of part 5 leaves alone
notObjVars == <<runVars, encVars, resVars, getVars, rspVars, putVars, fqnVars,
                bpVars>>

\* what a step of part 6 leaves alone
notRspVars == <<runVars, encVars, resVars, getVars, objVars, putVars, fqnVars,
                bpVars>>

\* what a step of part 7 leaves alone
notPutVars == <<runVars, encVars, resVars, getVars, objVars, rspVars, fqnVars,
                bpVars>>

\* what a step of part 8 leaves alone
notFqnVars == <<runVars, encVars, resVars, getVars, objVars, rspVars, putVars,
                bpVars>>

\* what a step of part 9 leaves alone
notBpVars == <<runVars, encVars, resVars, getVars, objVars, rspVars, putVars,
               fqnVars>>

vars == <<runVars, encVars, resVars, getVars, objVars, rspVars, putVars,
          fqnVars, bpVars>>

(***************************************************************************)
(* Part 1.  putJogger.run                                                   *)
(***************************************************************************)
\* putBatchSize, ec/putjogger.go:28
putBatchSize == 8

\* capacity of putCh and of xactCh (the channels are made by the xaction)
MaxQueue == 2

\* the actions a request can carry
Actions == {"ActSplit", "ActDelete"}

RunInit ==
    /\ putCh = <<>>
    /\ xactCh = <<>>
    /\ stopCh = FALSE
    /\ loopPc = "first"
    /\ putsDone = 0
    /\ liveRun = 0
    /\ lastTaken = "none"

\* a caller of the xaction sends a live request: c.putCh <- req
SendPut ==
    /\ Len(putCh) < MaxQueue
    /\ \E a \in Actions : putCh' = Append(putCh, a)
    /\ UNCHANGED <<xactCh, stopCh, loopPc, putsDone, liveRun, lastTaken>>
    /\ UNCHANGED notRunVars

\* the ec-encode xaction sends a background request: c.xactCh <- req
SendXact ==
    /\ Len(xactCh) < MaxQueue
    /\ \E a \in Actions : xactCh' = Append(xactCh, a)
    /\ UNCHANGED <<putCh, stopCh, loopPc, putsDone, liveRun, lastTaken>>
    /\ UNCHANGED notRunVars

\* putJogger.stop: c.stopCh <- struct{}{} blocks until run() receives
StopJogger ==
    /\ ~stopCh
    /\ loopPc # "exited"
    /\ stopCh' = TRUE
    /\ UNCHANGED <<putCh, xactCh, loopPc, putsDone, liveRun, lastTaken>>
    /\ UNCHANGED notRunVars

\* a mutant of BatchOpen: the batch is one request longer
BatchOpenOffByOne(n) == n <= putBatchSize

\* `if putsDone < putBatchSize { continue }`
BatchOpen(n) == n < putBatchSize

\* first select, case req := <-c.putCh: processRequest, putsDone++, and
\* either continue (first select again) or fall through to the second select
\* after `putsDone = 0`
FirstSelectPut ==
    /\ loopPc = "first"
    /\ putCh # <<>>
    /\ putCh' = Tail(putCh)
    /\ lastTaken' = "put"
    /\ liveRun' = liveRun + 1
    /\ IF BatchOpen(putsDone + 1)
         THEN /\ putsDone' = putsDone + 1
              /\ loopPc' = "first"
         ELSE /\ putsDone' = 0
              /\ loopPc' = "second"
    /\ UNCHANGED <<xactCh, stopCh>>
    /\ UNCHANGED notRunVars

\* first select, case <-c.stopCh: freeResources and return
FirstSelectStop ==
    /\ loopPc = "first"
    /\ stopCh
    /\ stopCh' = FALSE
    /\ loopPc' = "exited"
    /\ lastTaken' = "none"
    /\ UNCHANGED <<putCh, xactCh, putsDone, liveRun>>
    /\ UNCHANGED notRunVars

\* first select, default: nothing is ready; putsDone = 0 and go to the
\* second select
FirstSelectDefault ==
    /\ loopPc = "first"
    /\ putCh = <<>>
    /\ ~stopCh
    /\ putsDone' = 0
    /\ loopPc' = "second"
    /\ lastTaken' = "none"
    /\ UNCHANGED <<putCh, xactCh, stopCh, liveRun>>
    /\ UNCHANGED notRunVars

\* second select, case req := <-c.putCh
SecondSelectPut ==
    /\ loopPc = "second"
    /\ putCh # <<>>
    /\ putCh' = Tail(putCh)
    /\ loopPc' = "first"
    /\ liveRun' = 0
    /\ lastTaken' = "put"
    /\ UNCHANGED <<xactCh, stopCh, putsDone>>
    /\ UNCHANGED notRunVars

\* a mutant of XactReady: the second select prefers the live queue
XactReadyAfterPut == xactCh # <<>> /\ putCh = <<>>

\* second select: `case req := <-c.xactCh` can proceed
XactReady == xactCh # <<>>

\* second select, case req := <-c.xactCh
SecondSelectXact ==
    /\ loopPc = "second"
    /\ XactReady
    /\ xactCh' = Tail(xactCh)
    /\ loopPc' = "first"
    /\ liveRun' = 0
    /\ lastTaken' = "xact"
    /\ UNCHANGED <<putCh, stopCh, putsDone>>
    /\ UNCHANGED notRunVars

\* second select, case <-c.stopCh
SecondSelectStop ==
    /\ loopPc = "second"
    /\ stopCh
    /\ stopCh' = FALSE
    /\ loopPc' = "exited"
    /\ liveRun' = 0
    /\ lastTaken' = "none"
    /\ UNCHANGED <<putCh, xactCh, putsDone>>
    /\ UNCHANGED notRunVars

RunStep ==
    \/ FirstSelectPut
    \/ FirstSelectStop
    \/ FirstSelectDefault
    \/ SecondSelectPut
    \/ SecondSelectXact
    \/ SecondSelectStop

RunNext ==
    \/ SendPut
    \/ SendXact
    \/ StopJogger
    \/ FirstSelectPut
    \/ FirstSelectStop
    \/ FirstSelectDefault
    \/ SecondSelectPut
    \/ SecondSelectXact
    \/ SecondSelectStop

\* the zero value of Metadata; as the content of a metafile: no metafile
NoMeta == [Data |-> 0, Parity |-> 0, IsCopy |-> FALSE, SliceID |-> 0,
           ObjCksum |-> "", CksumType |-> "", CksumValue |-> "", ObjVersion |-> ""]

\* part 2 at rest: no request is being processed
EncIdle ==
    /\ pc = "done"
    /\ req = [Action |-> "ActDelete", IsCopy |-> FALSE, ErrCh |-> FALSE]
    /\ ecConf = [DataSlices |-> 2, ParitySlices |-> 1]
    /\ cksumType = "xxhash"
    /\ lomVersion = ""
    /\ targetCnt = 0
    /\ meta = NoMeta
    /\ metaFile = NoMeta
    /\ mdWritten = FALSE
    /\ targets = <<>>
    /\ slices = <<>>
    /\ counter = 0
    /\ idx = 0
    /\ sent = {}
    /\ cbDone = {}
    /\ decPending = 0
    /\ err = "nil"
    /\ cleanups = 0
    /\ delBcast = 0
    /\ ioErrors = {}
    /\ errCh = <<>>
    /\ errChClosed = 0
    /\ refCnt = 0
    /\ freed = 0
    /\ cleanupLog = <<>>

\* the zero value of Metadata as part 3 sees it (with Size; a checksum is a
\* sequence there and <<>> is no checksum)
NoMD == [Size |-> 0, Data |-> 0, Parity |-> 0, IsCopy |-> FALSE, SliceID |-> 0,
         ObjCksum |-> "", CksumType |-> "", CksumValue |-> <<>>,
         ObjVersion |-> ""]

\* the state of restore before requestMeta, for the object obj
ResStart(obj, conf, isCopy, disk) ==
    /\ object = obj
    /\ rConf = conf
    /\ rIsCopy = isCopy
    /\ toDisk = disk
    /\ asked = {}
    /\ metas = <<>>
    /\ chk = [v \in {"a", "b"} |-> 0]
    /\ chkVal = ""
    /\ chkMax = 0
    /\ arrivals = <<>>
    /\ nodes = {}
    /\ rmeta = NoMD
    /\ rslices = <<>>
    /\ idToNode = <<>>
    /\ requested = {}
    /\ writers = {}
    /\ sinks = {}
    /\ rreader = "none"
    /\ rfreed = 0
    /\ restored = <<>>
    /\ upPc = "none"
    /\ upCounter = 0
    /\ workfile = <<>>
    /\ replica = <<>>
    /\ mainMD = NoMD
    /\ rsent = {}
    /\ rcbDone = {}
    /\ rdecPending = 0
    /\ rerr = "nil"
    /\ rioErrors = {}

\* part 3 at rest: no object is being restored
ResIdle ==
    /\ rpc = "done"
    /\ ResStart(<<1>>, [Data |-> 2, Parity |-> 1], FALSE, FALSE)

\* no request: what gReq holds while run() is not in c.ec
NoReq == [Action |-> "none", Uname |-> "none"]

\* part 4 with the given position of run()
GetStart(at) ==
    /\ gPc = at
    /\ workCh = <<>>
    /\ gReq = NoReq
    /\ gStopCh = FALSE
    /\ gAsked = 0
    /\ sema = 0
    /\ jobID = 0
    /\ jobs = {}
    /\ gor = <<>>
    /\ gLIF = <<>>
    /\ gErrCh = <<>>
    /\ gDecPending = 0

\* part 4 at rest: the get jogger does not run
GetIdle == GetStart("exited")

\* part 5 with the given position of getObject, bucket and files
ObjStart(at, cfg, file, copy) ==
    /\ goPc = at
    /\ goCfg = cfg
    /\ goFile = file
    /\ goCopy = copy
    /\ goRetried = FALSE
    /\ goColdGet = FALSE
    /\ recRetried = FALSE
    /\ goErr = "nil"
    /\ goRounds = 0
    /\ goFailedAfter = FALSE
    /\ goRemoved = "none"
    /\ goFile0 = file
    /\ goSent = "none"
    /\ goHeld = IF at = "done" THEN 0 ELSE 1
    /\ goBadUnlock = FALSE

\* part 5 at rest: no GET runs
ObjIdle ==
    ObjStart("done", [ais |-> TRUE, hasCopies |-> FALSE, ecEnabled |-> FALSE,
                      validate |-> FALSE], "good", "absent")

\* no request handled yet: what rspLast holds at the start
NoRequest ==
    [act |-> "none", isSlice |-> FALSE, hasMeta |-> FALSE, err |-> "nil"]

\* part 6 at its start: the target holds no file of the object and the
\* responder has handled nothing
RspInit ==
    /\ ctFiles = [t \in {"mt", "ob", "ec"} |-> FALSE]
    /\ rspPending = 0
    /\ rspIncs = 0
    /\ rspDecs = 0
    /\ rspInFlight = 0
    /\ rspObjects = 0
    /\ rspBytes = 0
    /\ drained = 0
    /\ rmTried = <<>>
    /\ rspLast = NoRequest
    /\ rspHandled = 0

\* no PUT has been handled (part 7)
NoPut == [op |-> "none", cksumToUse |-> "", err |-> "nil"]

\* the target has no object and no MD of it
PutInit ==
    /\ poCksum = ""
    /\ poMD = "none"
    /\ poWrites = 0
    /\ poMDWrites = 0
    /\ poSends = 0
    /\ poOps = 0
    /\ poLast = NoPut

\* cmn.NsGlobal: neither UUID nor Name
NsGlobal == [UUID |-> <<>>, Name |-> <<>>]

\* the zero cmn.Bck
NoBck == [Name |-> <<>>, Provider |-> <<>>, Ns |-> NsGlobal]

\* no path has been built (part 8)
NoArgs == [mpath |-> <<>>, bck |-> NoBck, contentType |-> <<>>,
           objName |-> <<>>]

\* the zero fs.ParsedFQN and no error
NoParsed == [err |-> "nil", mpath |-> <<>>, bck |-> NoBck,
             contentType |-> <<>>, objName |-> <<>>]

\* no path is built or parsed
FqnIdle ==
    /\ fqMpaths = {}
    /\ fqArgs = NoArgs
    /\ fqn = <<>>
    /\ parsedFQN = NoParsed
    /\ fqPc = "idle"

\* no bucket properties are validated (part 9)
NoECConf == [Enabled |-> FALSE, ObjSizeLimit |-> 0, DataSlices |-> 0,
             ParitySlices |-> 0, BatchSize |-> 0]

BpIdle ==
    /\ bpConf = NoECConf
    /\ bpTargetCnt = 0
    /\ bpErr = "none"
    /\ bpPc = "idle"

InitRun ==
    /\ RunInit /\ EncIdle /\ ResIdle /\ GetIdle /\ ObjIdle /\ RspInit
    /\ PutInit /\ FqnIdle /\ BpIdle

SpecRun == InitRun /\ [][RunNext]_vars

\* run() is a goroutine that keeps running, and a select whose several cases
\* are ready picks one of them at random: a case that is ready again and
\* again is picked in the end
FairSpecRun ==
    /\ InitRun
    /\ [][RunNext]_vars
    /\ WF_vars(RunStep)
    /\ SF_vars(SecondSelectXact)

\* C9: while a background request waits on xactCh, the put jogger has taken at
\* most putBatchSize (8) live requests in a row at the first select, that is,
\* without having stood at the second select where the background request can
\* be taken.
C9_LiveBatchBounded == xactCh # <<>> => liveRun <= putBatchSize

\* C9, its case: a full batch of live requests was taken while a background
\* request waited, and run() now stands at the second select
C9_Witness ==
    /\ xactCh # <<>>
    /\ liveRun = putBatchSize
    /\ lastTaken = "put"
    /\ loopPc = "second"

C24_StopDrains ==
    [][(loopPc # "exited" /\ loopPc' = "exited") =>
          (putCh = <<>> /\ xactCh = <<>>)]_vars

(***************************************************************************)
(* Part 2.  putJogger.processRequest for one request                        *)
(***************************************************************************)

\* the most targets a cluster map has
MaxTargets == 5

\* the EC configurations <<data, parity>> of the bucket
Configs == {<<2, 1>>, <<2, 2>>, <<3, 1>>}

PutActions == {"ActSplit", "ActDelete", "ActRestore"}

\* the id of the target at position p (0: the main target) of the object's
\* HRW order
TargetAt(p) == 100 + p

\* cluster.HrwTargetList(uname, smap, count): the first count targets of the
\* object's HRW order, or an error when the map has fewer
HrwTargetList(n, count) ==
    IF count > n THEN <<>> ELSE [p \in 1..count |-> TargetAt(p - 1)]

\* the checksum of slice s, s in 1..data+parity
SliceCksum(s) == <<"ck", s>>

EncInit ==
    /\ pc = "lom"
    /\ req \in [Action : PutActions, IsCopy : BOOLEAN, ErrCh : BOOLEAN]
    /\ ecConf \in {[DataSlices |-> c[1], ParitySlices |-> c[2]] : c \in Configs}
    /\ cksumType \in {"none", "xxhash"}
    /\ lomVersion \in {"", "v1"}
    /\ targetCnt = 0
    /\ meta = NoMeta
    /\ metaFile = NoMeta
    /\ mdWritten = FALSE
    /\ targets = <<>>
    /\ slices = <<>>
    /\ counter = 0
    /\ idx = 0
    /\ sent = {}
    /\ cbDone = {}
    /\ decPending = 0
    /\ err = "nil"
    /\ cleanups = 0
    /\ delBcast = 0
    /\ ioErrors = {}
    /\ errCh = <<>>
    /\ errChClosed = 0
    /\ refCnt = 0
    /\ freed = 0
    /\ cleanupLog = <<>>

\* processRequest: req.LIF.LOM(...) and, for ActSplit, lom.Load(); on an error
\* processRequest returns at once
LoadLOM ==
    /\ pc = "lom"
    /\ \E ok \in BOOLEAN :
         IF ok THEN /\ pc' = "ec"
                    /\ UNCHANGED ioErrors
               ELSE /\ pc' = "done"
                    /\ ioErrors' = ioErrors \cup {"lom"}
    /\ UNCHANGED <<req, ecConf, cksumType, lomVersion, targetCnt, meta, metaFile,
                   mdWritten, targets, slices, counter, idx, sent, cbDone,
                   decPending, err, cleanups, cleanupLog, delBcast>>
    /\ UNCHANGED <<errCh, errChClosed, refCnt, freed>>
    /\ UNCHANGED notEncVars

\* a mutant of CleanupBcast: no DEL is broadcast
CleanupBcastNever(fqnOk, sendOk) == delBcast

\* c.cleanup(lom): HrwFQN may fail (nothing is done then); else the local
\* metafile is removed (a failure is logged) and DEL is broadcast (Send may fail)
\* fqnOk, rmOk, sendOk: the outcomes of HrwFQN, os.RemoveAll and Send
CleanupMetaFile(fqnOk, rmOk) ==
    IF fqnOk /\ rmOk THEN NoMeta ELSE metaFile

CleanupBcast(fqnOk, sendOk) ==
    IF fqnOk /\ sendOk THEN delBcast + 1 ELSE delBcast

\* cleanup: os.RemoveAll is called for the metafile, and for nothing else,
\* when its path was found
CleanupCall(fqnOk, rmOk, sendOk) ==
    [fqnOk |-> fqnOk, rmOk |-> rmOk, sendOk |-> sendOk,
     rm |-> IF fqnOk THEN <<"mt">> ELSE <<>>]

\* what cleanup returns
CleanupErr(fqnOk, sendOk) ==
    IF fqnOk /\ ~sendOk THEN "send" ELSE "nil"

\* c.ec, switch req.Action: ActDelete calls cleanup, an action that is neither
\* ActSplit nor ActDelete is an error
EcDelete ==
    /\ pc = "ec"
    /\ req.Action = "ActDelete"
    /\ \E fqnOk, rmOk, sendOk \in BOOLEAN :
         /\ metaFile' = CleanupMetaFile(fqnOk, rmOk)
         /\ delBcast' = CleanupBcast(fqnOk, sendOk)
         /\ err' = CleanupErr(fqnOk, sendOk)
         /\ cleanupLog' = Append(cleanupLog, CleanupCall(fqnOk, rmOk, sendOk))
    /\ cleanups' = cleanups + 1
    /\ pc' = "ecReturn"
    /\ UNCHANGED <<req, ecConf, cksumType, lomVersion, targetCnt, meta, mdWritten,
                   targets, slices, counter, idx, sent, cbDone, decPending,
                   ioErrors>>
    /\ UNCHANGED <<errCh, errChClosed, refCnt, freed>>
    /\ UNCHANGED notEncVars

EcInvalid ==
    /\ pc = "ec"
    /\ req.Action \notin {"ActSplit", "ActDelete"}
    /\ err' = "invalid"
    /\ pc' = "ecReturn"
    /\ UNCHANGED <<req, ecConf, cksumType, lomVersion, targetCnt, meta, metaFile,
                   mdWritten, targets, slices, counter, idx, sent, cbDone,
                   decPending, cleanups, cleanupLog, delBcast, ioErrors>>
    /\ UNCHANGED <<errCh, errChClosed, refCnt, freed>>
    /\ UNCHANGED notEncVars

\* encode: reqTargets
ReqTargets(conf, isCopy) ==
    IF isCopy THEN conf.ParitySlices + 1
              ELSE conf.ParitySlices + 1 + conf.DataSlices

\* a mutant of EnoughTargets: the main replica is not counted
EnoughTargetsNoMain(cnt, conf, isCopy) == cnt + 1 >= ReqTargets(conf, isCopy)

\* encode: `if targetCnt < reqTargets { return error }`
EnoughTargets(cnt, conf, isCopy) == cnt >= ReqTargets(conf, isCopy)

\* encode, from its start to the pre-flight check: the Metadata is built and
\* the number of targets is compared with the number the object needs
PreFlight ==
    /\ pc = "ec"
    /\ req.Action = "ActSplit"
    /\ meta' = [Data |-> ecConf.DataSlices, Parity |-> ecConf.ParitySlices,
                IsCopy |-> req.IsCopy, SliceID |-> 0,
                ObjCksum |-> IF cksumType = "none" THEN "" ELSE "objck",
                CksumType |-> IF cksumType = "none" THEN "" ELSE cksumType,
                CksumValue |-> "", ObjVersion |-> ""]
    /\ \E n \in 1..MaxTargets :
         /\ targetCnt' = n
         /\ IF EnoughTargets(n, ecConf, req.IsCopy)
              THEN /\ pc' = "writeMeta"
                   /\ err' = err
              ELSE /\ pc' = "ecReturn"
                   /\ err' = "targets"
    /\ UNCHANGED <<req, ecConf, cksumType, lomVersion, metaFile, mdWritten,
                   targets, slices, counter, idx, sent, cbDone, decPending,
                   cleanups, cleanupLog, delBcast, ioErrors>>
    /\ UNCHANGED <<errCh, errChClosed, refCnt, freed>>
    /\ UNCHANGED notEncVars

\* a mutant of AfterMetaWrite: the result of the MD write is ignored
AfterMetaWriteIgnored(ok, isCopy) == IF isCopy THEN "copies" ELSE "sendSlices"

\* encode, after ctMeta.Write: an error is returned as it is; otherwise a
\* replicated object goes to createCopies and an encoded one to sendSlices
AfterMetaWrite(ok, isCopy) ==
    IF ~ok THEN "ecReturn" ELSE IF isCopy THEN "copies" ELSE "sendSlices"

\* encode: `ctMeta.Write(c.parent.t, metaBuf, -1)`, the local MD sidecar of the
\* main replica
WriteMeta ==
    /\ pc = "writeMeta"
    /\ \E ok \in BOOLEAN :
         /\ pc' = AfterMetaWrite(ok, meta.IsCopy)
         /\ IF ok THEN /\ metaFile' = meta
                       /\ mdWritten' = TRUE
                       /\ UNCHANGED <<err, ioErrors>>
                  ELSE /\ err' = "metawrite"
                       /\ ioErrors' = ioErrors \cup {"metawrite"}
                       /\ UNCHANGED <<metaFile, mdWritten>>
    /\ UNCHANGED <<req, ecConf, cksumType, lomVersion, targetCnt, meta, targets,
                   slices, counter, idx, sent, cbDone, decPending, cleanups,
                   cleanupLog,
                   delBcast>>
    /\ UNCHANGED <<errCh, errChClosed, refCnt, freed>>
    /\ UNCHANGED notEncVars

\* a mutant of CopyNodes: the main target is not dropped from the list
CopyNodesWithMain(list) == {list[p] : p \in 1..Len(list)}

\* createCopies: `targets = targets[1:]` and the ids of what is left
CopyNodes(list) == {list[p] : p \in 2..Len(list)}

\* createCopies, called by encode for a replicated object; on an error encode
\* calls cleanup and returns the error
CreateCopies ==
    /\ pc = "copies"
    /\ \E n \in 1..MaxTargets, out \in {"ok", "fh", "send"},
          fqnOk, rmOk, sendOk \in BOOLEAN :
         LET list == HrwTargetList(n, ecConf.ParitySlices + 1)
             e    == IF list = <<>> THEN "hrw" ELSE out
         IN  /\ targets' = list
             /\ IF e = "ok"
                  THEN /\ sent' = sent \cup {[idx |-> 0, to |-> CopyNodes(list),
                                             md |-> meta, isSlice |-> FALSE]}
                       /\ UNCHANGED <<err, ioErrors, cleanups, cleanupLog,
                                      metaFile, delBcast>>
                  ELSE /\ err' = e
                       /\ ioErrors' = ioErrors \cup {e}
                       /\ cleanups' = cleanups + 1
                       /\ cleanupLog' = Append(cleanupLog, CleanupCall(fqnOk, rmOk, sendOk))
                       /\ metaFile' = CleanupMetaFile(fqnOk, rmOk)
                       /\ delBcast' = CleanupBcast(fqnOk, sendOk)
                       /\ UNCHANGED sent
    /\ pc' = "ecReturn"
    /\ UNCHANGED <<req, ecConf, cksumType, lomVersion, targetCnt, meta, mdWritten,
                   slices, counter, idx, cbDone, decPending>>
    /\ UNCHANGED <<errCh, errChClosed, refCnt, freed>>
    /\ UNCHANGED notEncVars

TotalCnt == ecConf.ParitySlices + ecConf.DataSlices

Min(a, b) == IF a < b THEN a ELSE b

\* sendSlices: `sliceCnt := cmn.Min(totalCnt, len(targets)-1)`
SliceCnt == Min(TotalCnt, Len(targets) - 1)

\* sendSlices: HrwTargetList(lom.Uname(), smap, totalCnt+1); on an error
\* sendSlices returns it and encode calls cleanup
SendSlicesTargets ==
    /\ pc = "sendSlices"
    /\ \E n \in 1..MaxTargets, fqnOk, rmOk, sendOk \in BOOLEAN :
         LET list == HrwTargetList(n, TotalCnt + 1)
         IN  /\ targets' = list
             /\ IF list # <<>>
                  THEN /\ pc' = "generate"
                       /\ UNCHANGED <<err, ioErrors, cleanups, cleanupLog,
                                      metaFile, delBcast>>
                  ELSE /\ pc' = "ecReturn"
                       /\ err' = "hrw"
                       /\ ioErrors' = ioErrors \cup {"hrw"}
                       /\ cleanups' = cleanups + 1
                       /\ cleanupLog' = Append(cleanupLog, CleanupCall(fqnOk, rmOk, sendOk))
                       /\ metaFile' = CleanupMetaFile(fqnOk, rmOk)
                       /\ delBcast' = CleanupBcast(fqnOk, sendOk)
    /\ UNCHANGED <<req, ecConf, cksumType, lomVersion, targetCnt, meta, mdWritten,
                   slices, counter, idx, sent, cbDone, decPending>>
    /\ UNCHANGED <<errCh, errChClosed, refCnt, freed>>
    /\ UNCHANGED notEncVars

\* sendSlices: generateSlicesToDisk or generateSlicesToMemory.
\* initializeSlices adds 1 to wgCksmReaders and starts checksumDataSlices only
\* when the checksum type is not none; finalizeSlices waits for wgCksmReaders
\* after the encoding, whatever the type: with type none it waits forever.
\* checksumDataSlices stops at the first slice it fails to read (ckN slices are
\* done then) and reports on errCksumCh, which nobody reads.
GenerateSlices ==
    /\ pc = "generate"
    /\ \E encoded \in BOOLEAN, ckN \in 0..ecConf.DataSlices,
          fqnOk, rmOk, sendOk \in BOOLEAN :
         IF ~encoded
           THEN /\ pc' = "ecReturn"
                /\ err' = "generate"
                /\ ioErrors' = ioErrors \cup {"generate"}
                /\ cleanups' = cleanups + 1
                /\ cleanupLog' = Append(cleanupLog, CleanupCall(fqnOk, rmOk, sendOk))
                /\ metaFile' = CleanupMetaFile(fqnOk, rmOk)
                /\ delBcast' = CleanupBcast(fqnOk, sendOk)
                /\ UNCHANGED <<slices, counter, refCnt>>
           ELSE IF cksumType = "none"
           THEN /\ pc' = "hung"
                /\ UNCHANGED <<err, ioErrors, cleanups, cleanupLog, metaFile, delBcast, slices,
                               counter, refCnt>>
           ELSE /\ pc' = "copy"
                /\ slices' = [s \in 1..TotalCnt |->
                                IF s <= ecConf.DataSlices /\ s > ckN
                                  THEN "nil" ELSE SliceCksum(s)]
                /\ counter' = SliceCnt
                /\ refCnt' = ecConf.DataSlices
                /\ ioErrors' = IF ckN < ecConf.DataSlices
                                 THEN ioErrors \cup {"cksum"} ELSE ioErrors
                /\ UNCHANGED <<err, cleanups, cleanupLog, metaFile, delBcast>>
    /\ idx' = 0
    /\ UNCHANGED <<req, ecConf, cksumType, lomVersion, targetCnt, meta, mdWritten,
                   targets, sent, cbDone, decPending>>
    /\ UNCHANGED <<errCh, errChClosed, freed>>
    /\ UNCHANGED notEncVars

\* a mutant of SliceTarget: the slice goes to the target one position earlier
SliceTargetOffByOne(i) == targets[i + 1]

\* copySlice(i): `targets[i+1].ID()` (the list is 0-based in the code and
\* 1-based here)
SliceTarget(i) == targets[i + 2]

\* a mutant of SliceMeta: the shared Metadata is sent as it is, not a clone
\* with the slice's id and checksum
SliceMetaNoClone(i) == meta

\* copySlice(i): mcopy, the clone of meta sent with slice i
SliceMeta(i) ==
    LET m == [meta EXCEPT !.SliceID = i + 1, !.ObjVersion = lomVersion]
    IN  IF m.SliceID # 0 /\ slices[i + 1] # "nil"
          THEN [m EXCEPT !.CksumType = cksumType, !.CksumValue = slices[i + 1]]
          ELSE m

\* sendSlices, after the copySlice loop: copyErr is logged and
\* `return slices, nil`
SendSlicesErr(copyFailed) == "nil"

\* sendSlices, one turn of `for i := 0; i < sliceCnt; i++ { copySlice(i) }`:
\* the reader of the slice is reopened (this may fail), the Metadata is cloned
\* and the slice is handed to writeRemote (this may fail); an error is kept in
\* copyErr and the loop goes on. After the last turn sendSlices returns.
CopySlice ==
    /\ pc = "copy"
    /\ idx < SliceCnt
    /\ \E out \in {"ok", "reader", "send"}, fqnOk, rmOk, sendOk \in BOOLEAN :
         LET failed == ioErrors' \cap {"reader", "send"} # {}
             e      == SendSlicesErr(failed)
         IN  /\ IF out = "ok"
                  THEN /\ sent' = sent \cup {[idx |-> idx + 1,
                                             to |-> {SliceTarget(idx)},
                                             md |-> SliceMeta(idx),
                                             isSlice |-> TRUE]}
                       /\ UNCHANGED ioErrors
                  ELSE /\ ioErrors' = ioErrors \cup {out}
                       /\ UNCHANGED sent
             /\ idx' = idx + 1
             /\ IF idx + 1 < SliceCnt
                  THEN /\ pc' = "copy"
                       /\ UNCHANGED <<err, cleanups, cleanupLog, metaFile, delBcast>>
                  ELSE /\ pc' = "ecReturn"
                       /\ err' = e
                       /\ IF e = "nil"
                            THEN UNCHANGED <<cleanups, cleanupLog, metaFile, delBcast>>
                            ELSE /\ cleanups' = cleanups + 1
                                 /\ cleanupLog' = Append(cleanupLog,
                                        CleanupCall(fqnOk, rmOk, sendOk))
                                 /\ metaFile' = CleanupMetaFile(fqnOk, rmOk)
                                 /\ delBcast' = CleanupBcast(fqnOk, sendOk)
    /\ UNCHANGED <<req, ecConf, cksumType, lomVersion, targetCnt, meta, mdWritten,
                   targets, slices, counter, cbDone, decPending>>
    /\ UNCHANGED <<errCh, errChClosed, refCnt, freed>>
    /\ UNCHANGED notEncVars

\* processRequest: `if err != nil || req.Action == ActDelete`
MustDecPending(e, action) == e # "nil" \/ action = "ActDelete"

\* c.ec returns (the result goes to req.ErrCh, which is closed, when the
\* request has one) and processRequest ends: DecPending when ec failed or the
\* action is ActDelete, then req.Callback
EcReturn ==
    /\ pc = "ecReturn"
    /\ errCh' = IF req.ErrCh THEN Append(errCh, err) ELSE errCh
    /\ errChClosed' = IF req.ErrCh THEN errChClosed + 1 ELSE errChClosed
    /\ UNCHANGED <<refCnt, freed>>
    /\ decPending' = IF MustDecPending(err, req.Action)
                       THEN decPending + 1 ELSE decPending
    /\ pc' = "done"
    /\ UNCHANGED <<req, ecConf, cksumType, lomVersion, targetCnt, meta, metaFile,
                   mdWritten, targets, slices, counter, idx, sent, cbDone, err,
                   cleanups, cleanupLog, delBcast, ioErrors>>
    /\ UNCHANGED notEncVars

\* a mutant of IsDataSlice: the parity slices release mainObj as well
IsDataSliceAll(id) == TRUE

\* copySlice(i): `if i < ecConf.DataSlices` the slice reads the main object
\* (id is i + 1)
IsDataSlice(id) == id <= ecConf.DataSlices

\* slice.release: the reader is freed when the count drops below 1
ReleaseFrees(cnt) == cnt < 1

\* sentCB: `if cnt := counter.Dec(); cnt == 0`
LastCallback(cnt) == cnt = 0

\* the transport calls the completion callback of a send, once per send, at
\* any time after the send was handed to it: sentCB of copySlice for a slice
\* (data.release(), which for a data slice is the release of mainObj, and
\* counter.Dec()), cb of createCopies for the replica
SentCallback ==
    /\ \E s \in sent :
         /\ s.idx \notin cbDone
         /\ cbDone' = cbDone \cup {s.idx}
         /\ IF s.isSlice /\ IsDataSlice(s.idx)
              THEN /\ refCnt' = refCnt - 1
                   /\ freed' = IF ReleaseFrees(refCnt - 1) THEN freed + 1 ELSE freed
              ELSE UNCHANGED <<refCnt, freed>>
         /\ IF s.isSlice
              THEN /\ counter' = counter - 1
                   /\ decPending' = IF LastCallback(counter - 1)
                                      THEN decPending + 1 ELSE decPending
              ELSE /\ decPending' = decPending + 1
                   /\ UNCHANGED counter
    /\ UNCHANGED <<pc, req, ecConf, cksumType, lomVersion, targetCnt, meta,
                   metaFile, mdWritten, targets, slices, idx, sent, err, cleanups, cleanupLog,
                   delBcast, ioErrors>>
    /\ UNCHANGED <<errCh, errChClosed>>
    /\ UNCHANGED notEncVars

EncNext ==
    \/ LoadLOM
    \/ EcDelete
    \/ EcInvalid
    \/ PreFlight
    \/ WriteMeta
    \/ CreateCopies
    \/ SendSlicesTargets
    \/ GenerateSlices
    \/ CopySlice
    \/ EcReturn
    \/ SentCallback

Init ==
    /\ RunInit /\ EncInit /\ ResIdle /\ GetIdle /\ ObjIdle /\ RspInit
    /\ PutInit /\ FqnIdle /\ BpIdle

Spec == Init /\ [][EncNext]_vars

\* the targets the encode of this request needs: parity + 1 for a replicated
\* object, data + parity + 1 for an encoded one
Needed ==
    IF req.IsCopy THEN ecConf.ParitySlices + 1
                  ELSE ecConf.DataSlices + ecConf.ParitySlices + 1

\* the slice sends and the replica sends handed to the transport
SliceSends == {s \in sent : s.isSlice}
ReplicaSends == {s \in sent : ~s.isSlice}

\* C3: whenever a replica or a slice has been handed to the transport, the
\* local MD sidecar of the main replica was written before; and when the MD
\* write failed, encode returns that error and nothing (no replica, no slice,
\* no DEL) has been sent.
C3_MetaBeforeSend ==
    /\ sent # {} => mdWritten
    /\ "metawrite" \in ioErrors =>
         /\ sent = {}
         /\ delBcast = 0
         /\ err = "metawrite"
         /\ pc \in {"ecReturn", "done"}

\* C3, its case: the first slice has just been handed to the transport
C3_Witness ==
    /\ mdWritten
    /\ Cardinality(sent) = 1
    /\ pc = "copy"

\* C4: when encode found fewer targets than the object needs, it has failed
\* with the insufficient-targets error, no MD was written and nothing was sent.
C4_InsufficientTargets ==
    (targetCnt # 0 /\ targetCnt < Needed) =>
        /\ err = "targets"
        /\ pc \in {"ecReturn", "done"}
        /\ ~mdWritten
        /\ metaFile = NoMeta
        /\ sent = {}
        /\ cleanups = 0
        /\ delBcast = 0

\* C4, its case: an encoded object with exactly data + parity targets
C4_Witness ==
    /\ ~req.IsCopy
    /\ targetCnt = ecConf.DataSlices + ecConf.ParitySlices
    /\ pc = "done"

C6_ReplicaPlacement ==
    /\ \A s \in ReplicaSends :
         /\ s.to = {TargetAt(p) : p \in 1..ecConf.ParitySlices}
         /\ TargetAt(0) \notin s.to
         /\ Cardinality(s.to) = ecConf.ParitySlices
         /\ s.md.SliceID = 0
         /\ s.md.IsCopy
    /\ ( /\ req.Action = "ActSplit" /\ req.IsCopy /\ mdWritten
         /\ pc \in {"ecReturn", "done"} /\ err = "nil" )
       => Cardinality(ReplicaSends) = 1

\* C6, its case: the replica of an object with parity 2 has been sent
C6_Witness ==
    /\ ReplicaSends # {}
    /\ ecConf.ParitySlices = 2
    /\ pc = "done"

\* C7: once processRequest has returned for an encoded PUT whose slices went
\* to the transport, and the callbacks of all those sends have run, the pending
\* count has been decremented exactly once.
C7_PendingOnce ==
    ( /\ req.Action = "ActSplit" /\ ~req.IsCopy
      /\ pc = "done"
      /\ SliceSends # {}
      /\ cbDone = {s.idx : s \in sent} )
    => decPending = 1

\* C8: once the pre-flight check and the MD write have passed, a failure of the
\* target-list lookup, of the slice generation, of the reopening of a slice
\* reader or of the start of a slice or replica send makes encode run cleanup
\* and return an error.
C8_ErrorsAbort ==
    ( /\ pc = "done"
      /\ ioErrors \cap {"hrw", "generate", "reader", "send", "fh"} # {} )
    => (err # "nil" /\ cleanups >= 1)

\* C23: a request the put jogger took from its queue that carries an error
\* channel gets exactly one result on it and the channel is closed exactly
\* once, on every path of processRequest: never more than one, and one of
\* each once processRequest has returned.
C23_ErrChClosedOnce ==
    req.ErrCh =>
       /\ Len(errCh) <= 1 /\ errChClosed <= 1
       /\ pc = "done" => Len(errCh) = 1 /\ errChClosed = 1

\* the sends of the data slices, which share the reader of mainObj
DataSends == {s \in SliceSends : IsDataSlice(s.idx)}

\* C25: the reader of the main object that the data-slice sends of one PUT
\* share is freed at most once and never while a data-slice send that was
\* handed to the transport still waits for its callback; once all
\* DataSlices data-slice sends were handed over and the callbacks of all of
\* them have run, it has been freed exactly once (by the last callback).
C25_SharedReaderFreedOnce ==
    /\ freed <= 1
    /\ freed = 1 =>
          /\ Cardinality(DataSends) = ecConf.DataSlices
          /\ \A s \in DataSends : s.idx \in cbDone
    /\ ( /\ Cardinality(DataSends) = ecConf.DataSlices
         /\ \A s \in DataSends : s.idx \in cbDone ) => freed = 1

\* C25, its case: the three data slices of an encoded PUT were sent, the
\* callbacks of all of them have run and the shared reader is freed
C25_Witness ==
    /\ ecConf.DataSlices = 3
    /\ Cardinality(DataSends) = 3
    /\ \A s \in DataSends : s.idx \in cbDone
    /\ refCnt = 0
    /\ freed = 1

\* C26: all the MDs written for one encode carry the same object checksum
\* and the same ObjVersion: the MD sent with every slice or replica agrees in
\* both with the local MD of the main replica, while that MD is in place.
C26_SameCksumAndVersion ==
    metaFile # NoMeta =>
       \A s \in sent : /\ s.md.ObjCksum = metaFile.ObjCksum
                        /\ s.md.ObjVersion = metaFile.ObjVersion

\* the cleanup of a delete request has returned
DeleteDone == req.Action = "ActDelete" /\ cleanupLog # <<>>

\* C29 as stated: the delete removes locally the MD of the replica, the
\* replica and the slices, in this order, before it broadcasts DEL.
C29_RemovesAllLocal ==
    (DeleteDone /\ cleanupLog[1].fqnOk) => cleanupLog[1].rm = <<"mt", "ob", "ec">>

\* C29: the delete of the engine (c.cleanup for ActDelete) removes locally
\* the MD of the main replica and nothing else, and then hands the DEL
\* broadcast to the transport and returns; a failed removal of the MD does
\* not prevent the broadcast; only when the path of the MD cannot be found
\* is nothing removed and nothing broadcast, and cleanup returns no error.
C29_RemovesMDThenBroadcasts ==
    DeleteDone =>
       /\ Len(cleanupLog) = 1
       /\ LET c == cleanupLog[1]
          IN  /\ c.fqnOk => /\ c.rm = <<"mt">>
                            /\ c.rmOk => metaFile = NoMeta
                            /\ delBcast = (IF c.sendOk THEN 1 ELSE 0)
                            /\ err = (IF c.sendOk THEN "nil" ELSE "send")
              /\ ~c.fqnOk => (c.rm = <<>> /\ delBcast = 0 /\ err = "nil")
       /\ sent = {}

\* C29, its case: the removal of the local MD failed and the DEL was
\* broadcast all the same
C29_Witness ==
    /\ DeleteDone
    /\ cleanupLog[1].fqnOk /\ ~cleanupLog[1].rmOk /\ cleanupLog[1].sendOk
    /\ delBcast = 1
    /\ err = "nil"

(***************************************************************************)
(* Part 3.  getJogger.restore for one object                                *)
(*                                                                         *)
(* The target that restores is the main target of the object, position 0   *)
(* of its HRW order; the peer at position t is named t.  The bytes of the  *)
(* object are symbols of 1..2 and the Reed-Solomon code works in the field *)
(* of the integers modulo 3, with 0 as the padding byte.                   *)
(***************************************************************************)

\* the longest object, in bytes
MaxSize == 2

\* the order of the field of the Reed-Solomon code
Field == 3

\* the objects: the byte strings of 1..MaxSize bytes
Objects == UNION {[1..n -> 1..2] : n \in 1..MaxSize}

\* the EC configurations <<data, parity>> of the objects restored
RestoreConfigs == {<<2, 1>>, <<2, 2>>}

\* the versions of the object the peers may hold: "a" the one last PUT, "b" an
\* older one; the object checksum of a version is its name
Versions == {"a", "b"}

\* the bytes of a version of the object
Content(v) == IF v = "a" THEN object ELSE [p \in 1..Len(object) |-> 3 - object[p]]

\* the peers: the targets of the cluster map other than this one
Peers == 1..(rConf.Data + rConf.Parity)

\* ec.SliceSize(size, data): the size of a slice of an object of size bytes
SliceSize(size, data) == (size + data - 1) \div data

\* the checksum of a byte string
Cksum(bytes) == <<"xxhash">> \o bytes

\* the sum of f[1..n]
RECURSIVE SumTo(_, _)
SumTo(f, n) == IF n = 0 THEN 0 ELSE f[n] + SumTo(f, n - 1)

\* reedsolomon: symbol s of the code word of the data symbols d; the first
\* Len(d) symbols are the data, parity j is the sum of j^(i-1) * d[i]
EncodeSym(d, s) ==
    IF s <= Len(d)
      THEN d[s]
      ELSE SumTo([i \in 1..Len(d) |-> ((s - Len(d)) ^ (i - 1)) * d[i]], Len(d)) % Field

\* data slice i of an object: the section [(i-1) * sliceSize, i * sliceSize),
\* padded with zeros
DataSlice(obj, data, i) ==
    LET ss == SliceSize(Len(obj), data)
    IN  [p \in 1..ss |-> IF (i - 1) * ss + p <= Len(obj)
                           THEN obj[(i - 1) * ss + p] ELSE 0]

\* reedsolomon Encode: slice s (1..data the data slices, then the parity
\* slices) of an object
Shard(obj, data, s) ==
    [p \in 1..SliceSize(Len(obj), data) |->
        EncodeSym([i \in 1..data |-> DataSlice(obj, data, i)[p]], s)]

\* the Metadata the peer t holds for version v of the object: that of slice t
\* of an encoded object, that of a replica of a replicated one
PeerMD(t, v) ==
    [Size |-> Len(object), Data |-> rConf.Data, Parity |-> rConf.Parity,
     IsCopy |-> rIsCopy, SliceID |-> IF rIsCopy THEN 0 ELSE t,
     ObjCksum |-> v, CksumType |-> "xxhash",
     CksumValue |-> IF rIsCopy THEN <<>>
                               ELSE Cksum(Shard(Content(v), rConf.Data, t)),
     ObjVersion |-> ""]

\* a slot of the slices of requestSlices that no peer was asked for
NoSlice == [present |-> FALSE, bytes |-> <<>>]

ResInit ==
    /\ rpc = "start"
    /\ \E obj \in Objects, c \in RestoreConfigs, isCopy, disk \in BOOLEAN :
         ResStart(obj, [Data |-> c[1], Parity |-> c[2]], isCopy, disk)

\* restore: `lom.Bprops() == nil || !lom.Bprops().EC.Enabled`
RestoreStart ==
    /\ rpc = "start"
    /\ \E enabled \in BOOLEAN :
         IF enabled THEN /\ rpc' = "meta"
                         /\ UNCHANGED <<rerr, rioErrors>>
                    ELSE /\ rpc' = "done"
                         /\ rerr' = "ECDisabled"
                         /\ rioErrors' = rioErrors \cup {"disabled"}
    /\ UNCHANGED <<requested, writers, sinks, rreader, rfreed>>
    /\ UNCHANGED <<object, rConf, rIsCopy, toDisk, asked, metas, chk, chkVal,
                   chkMax, nodes, rmeta, rslices, idToNode, restored, replica,
                   mainMD, rsent, rcbDone, rdecPending>>
    /\ UNCHANGED arrivals
    /\ UNCHANGED <<upPc, upCounter>>
    /\ UNCHANGED workfile
    /\ UNCHANGED notResVars

\* a mutant of TallyWins: a checksum that draws level with the highest count
\* is taken
TallyWinsOnTie(cnt, max) == cnt >= max

\* a mutant of TallyWins: the checksum seen last is taken
TallyWinsAlways(cnt, max) == cnt > 0

\* requestMeta: `if cnt > chkMax`
TallyWins(cnt, max) == cnt > max

\* requestMeta, the goroutine of peer t: requestECMeta fails (the peer has no
\* metafile, or cannot be reached) or returns the peer's Metadata, which is
\* stored and tallied under the mutex. A replica is held only by the parity
\* peers that follow the main target.
MetaResponse(t) ==
    /\ rpc = "meta"
    /\ t \in Peers \ asked
    /\ asked' = asked \cup {t}
    /\ \E out \in {"none"} \cup Versions :
         /\ (rIsCopy /\ t > rConf.Parity) => out = "none"
         /\ IF out = "none"
              THEN UNCHANGED <<metas, chk, chkVal, chkMax, arrivals>>
              ELSE LET md  == PeerMD(t, out)
                       cnt == chk[md.ObjCksum] + 1
                   IN  /\ metas' = metas @@ (t :> md)
                       /\ arrivals' = Append(arrivals, md.ObjCksum)
                       /\ chk' = [chk EXCEPT ![md.ObjCksum] = cnt]
                       /\ IF TallyWins(cnt, chkMax)
                            THEN /\ chkMax' = cnt
                                 /\ chkVal' = md.ObjCksum
                            ELSE UNCHANGED <<chkVal, chkMax>>
    /\ UNCHANGED <<requested, writers, sinks, rreader, rfreed>>
    /\ UNCHANGED <<rpc, object, rConf, rIsCopy, toDisk, nodes, rmeta, rslices,
                   idToNode, restored, replica, mainMD, rsent, rcbDone,
                   rdecPending, rerr, rioErrors>>
    /\ UNCHANGED <<upPc, upCounter>>
    /\ UNCHANGED workfile
    /\ UNCHANGED notResVars

\* a mutant of ErrorNoMetafile: no error is returned
ErrorNoMetafileNil == "nil"

\* ec.ErrorNoMetafile, which requestMeta returns when `len(metas) == 0`
ErrorNoMetafile == "NoMetafile"

\* requestMeta: `if v.ObjCksum == chkVal`, the Metadata that is kept
NodeKept(md) == md.ObjCksum = chkVal

\* a mutant of EnoughNodes: one node fewer than meta.Data is let through
EnoughNodesOffByOne(n, md) == ~(n < md.Data - 1)

\* restore, after requestMeta: the size of nodes against meta.Data
EnoughNodes(n, md) == ~(n < md.Data)

\* requestMeta after wg.Wait(): no Metadata at all is ErrorNoMetafile; else the
\* peers whose Metadata carries chkVal are kept and meta is the Metadata of one
\* of them (the last the range over the map visits). Then restore: a replicated
\* object goes to restoreReplicated, an encoded one with fewer nodes than
\* meta.Data fails, any other goes to restoreEncoded.
MetaGathered ==
    /\ rpc = "meta"
    /\ asked = Peers
    /\ IF DOMAIN metas = {}
         THEN /\ rerr' = ErrorNoMetafile
              /\ rpc' = "done"
              /\ UNCHANGED <<nodes, rmeta>>
         ELSE LET kept == {k \in DOMAIN metas : NodeKept(metas[k])}
              IN  /\ nodes' = kept
                  /\ \E k \in kept : rmeta' = metas[k]
                  /\ IF rmeta'.IsCopy
                       THEN /\ rpc' = "replicated"
                            /\ UNCHANGED rerr
                       ELSE IF EnoughNodes(Cardinality(kept), rmeta')
                       THEN /\ rpc' = "slices"
                            /\ UNCHANGED rerr
                       ELSE /\ rpc' = "done"
                            /\ rerr' = "insufficient"
    /\ UNCHANGED <<requested, writers, sinks, rreader, rfreed>>
    /\ UNCHANGED <<object, rConf, rIsCopy, toDisk, asked, metas, chk, chkVal,
                   chkMax, rslices, idToNode, restored, replica, mainMD, rsent,
                   rcbDone, rdecPending, rioErrors>>
    /\ UNCHANGED arrivals
    /\ UNCHANGED <<upPc, upCounter>>
    /\ UNCHANGED workfile
    /\ UNCHANGED notResVars

\* the bytes of a slice with every byte changed
Corrupt(bytes) == [p \in 1..Len(bytes) |-> (bytes[p] + 1) % Field]

\* what the peer k delivers into the sink of its slice: the slice as its
\* Metadata describes it, or other bytes of the same length
Arrived(k, how) ==
    LET good == Shard(Content(metas[k].ObjCksum), metas[k].Data, metas[k].SliceID)
    IN  IF how = "intact" THEN good ELSE Corrupt(good)

\* the sinks left allocated when requestSlices fails: after a failure of
\* sendByDaemonID it has freed them all (freeSlices); after a failure of
\* lom.CreateFile those made before it are returned, and restoreEncoded
\* frees their LOMs and unregisters them only
SinksLeft(out, made) == IF out = "create" THEN made ELSE {}

\* requestSlices up to the wait: a sink is made and registered as a writer for
\* every node with a valid slice id (to disk: lom.CreateFile may fail) and the
\* request is broadcast (sendByDaemonID may fail). On an error restoreEncoded
\* unregisters the writers and returns it.
RequestSlices ==
    /\ rpc = "slices"
    /\ LET sliceCnt == rmeta.Data + rmeta.Parity
           valid    == {k \in nodes : ~(metas[k].SliceID < 1
                                        \/ metas[k].SliceID > sliceCnt)}
           holder(i) == CHOOSE k \in valid : metas[k].SliceID = i
           ids      == {metas[k].SliceID : k \in valid}
       IN  \E out \in {"ok", "create", "send"} :
             /\ out = "create" => toDisk /\ valid # {}
             /\ IF out = "ok"
                  THEN /\ rslices' = [i \in 1..sliceCnt |->
                               IF i \in ids
                                 THEN [present |-> TRUE, bytes |-> <<>>]
                                 ELSE NoSlice]
                       /\ idToNode' = [i \in ids |-> holder(i)]
                       /\ requested' = valid
                       /\ writers' = valid
                       /\ sinks' = valid
                       /\ rpc' = "wait"
                       /\ UNCHANGED <<rerr, rioErrors>>
                  ELSE /\ rerr' = out
                       /\ rioErrors' = rioErrors \cup {out}
                       /\ rpc' = "done"
                       /\ \E made \in SUBSET valid :
                            /\ made # valid
                            /\ sinks' = SinksLeft(out, made)
                       /\ UNCHANGED <<rslices, idToNode, requested, writers>>
    /\ UNCHANGED <<object, rConf, rIsCopy, toDisk, asked, metas, chk, chkVal,
                   chkMax, nodes, rmeta, restored, replica, mainMD, rsent,
                   rcbDone, rdecPending>>
    /\ UNCHANGED <<rreader, rfreed>>
    /\ UNCHANGED <<upPc, upCounter>>
    /\ UNCHANGED arrivals
    /\ UNCHANGED workfile
    /\ UNCHANGED notResVars

\* the peers requested for a slice that have not delivered it
Pending == {k \in requested : rslices[metas[k].SliceID].bytes = <<>>}

\* while requestSlices waits, the peer k delivers its slice into its sink
SliceArrives(k) ==
    /\ rpc = "wait"
    /\ k \in Pending
    /\ \E how \in {"intact", "corrupt"} :
         rslices' = [rslices EXCEPT ![metas[k].SliceID].bytes = Arrived(k, how)]
    /\ UNCHANGED <<rpc, object, rConf, rIsCopy, toDisk, asked, metas, chk,
                   chkVal, chkMax, arrivals, nodes, rmeta, idToNode, requested,
                   writers, sinks, rreader, rfreed, restored, upPc, upCounter, workfile, replica,
                   mainMD, rsent, rcbDone, rdecPending, rerr, rioErrors>>
    /\ UNCHANGED notResVars

\* a mutant of WaitOver: the wait ends only when every slice has arrived
WaitOverWhenAll(pending, expired) == pending = {}

\* `wgSlices.WaitTimeout(conf.Timeout.SendFile)`: the wait is over when every
\* slice has arrived or the timeout has expired, whatever is still pending
WaitOver(pending, expired) == pending = {} \/ expired

\* requestSlices, the end of the wait: a timeout is logged, and the slices,
\* idToNode and no error are returned
WaitReturns ==
    /\ rpc = "wait"
    /\ \E expired \in BOOLEAN : WaitOver(Pending, expired)
    /\ rpc' = "mainobj"
    /\ UNCHANGED <<object, rConf, rIsCopy, toDisk, asked, metas, chk, chkVal,
                   chkMax, arrivals, nodes, rmeta, rslices, idToNode, requested,
                   writers, sinks, rreader, rfreed, restored, upPc, upCounter, workfile, replica,
                   mainMD, rsent, rcbDone, rdecPending, rerr, rioErrors>>
    /\ UNCHANGED notResVars

\* a mutant of SliceUsable: a slice that arrived with no bytes is taken as data
SliceUsableEmpty(sl) == sl.present

\* restoreMainObj: `sl != nil && sl.writer != nil` after the writer of a slice
\* of size 0 was set to nil
SliceUsable(sl) == sl.present /\ Len(sl.bytes) # 0

\* checkSliceChecksum: the checksum of the bytes received for slice i against
\* the checksum of the Metadata the slice came with
CksumMatches(i) == Cksum(rslices[i].bytes) = metas[idToNode[i]].CksumValue

\* reedsolomon Reconstruct: slice s rebuilt from the readers, a function from
\* slice ids to bytes; the first data of them, in slice-id order, are decoded
Reconstructed(readers, data, s) ==
    LET first == {i \in DOMAIN readers :
                     Cardinality({j \in DOMAIN readers : j < i}) < data}
        any   == CHOOSE i \in first : TRUE
        sym(p) == CHOOSE d \in [1..data -> 0..(Field - 1)] :
                     \A i \in first : EncodeSym(d, i) = readers[i][p]
    IN  [p \in 1..Len(readers[any]) |-> EncodeSym(sym(p), s)]

\* io.MultiReader: the byte strings f[1..n] one after the other
RECURSIVE ConcatTo(_, _)
ConcatTo(f, n) == IF n = 0 THEN <<>> ELSE ConcatTo(f, n - 1) \o f[n]

\* WriteReplicaAndMeta: the bytes of the reader, up to lom.Size() of them
WriteReplica(bytes, size) ==
    SubSeq(bytes, 1, IF size < Len(bytes) THEN size ELSE Len(bytes))

\* restoreMainObj: a slice that is missing or empty gets a writer (to disk:
\* lom.CreateFile may fail; the reader of a received slice may fail to open),
\* and so does, once the checksum checks have ended, a slice whose checksum
\* does not match, whose reader is dropped; Reconstruct fills the writers from
\* the readers; the first data slices are concatenated, a slice that was
\* received (`slices[i].writer != nil`) as received and any other as rebuilt, and
\* written as the main replica with the Metadata, SliceID 0. restoreEncoded
\* then, when there was no error, starts the goroutine of uploadRestoredSlices,
\* and unregisters the writers of all the nodes.
RestoreMainObj ==
    /\ rpc = "mainobj"
    /\ LET sliceCnt == rmeta.Data + rmeta.Parity
           usable   == {i \in 1..sliceCnt : SliceUsable(rslices[i])}
           bad      == {i \in usable : ~CksumMatches(i)}
           rd       == [i \in usable \ bad |-> rslices[i].bytes]
           wr       == (1..sliceCnt) \ (usable \ bad)
           rebuilt  == [i \in wr |-> Reconstructed(rd, rmeta.Data, i)]
           src(i)   == IF i \in usable THEN rslices[i].bytes ELSE rebuilt[i]
           all      == ConcatTo([i \in 1..rmeta.Data |-> src(i)], rmeta.Data)
       IN  \E out \in {"ok", "io", "write"} :
             /\ out = "io" => toDisk
             /\ IF out = "io"
                  THEN /\ rerr' = "io"
                       /\ rioErrors' = rioErrors \cup {"io"}
                       /\ UNCHANGED <<restored, idToNode, replica, mainMD>>
                  ELSE /\ idToNode' = [i \in DOMAIN idToNode \ wr |-> idToNode[i]]
                       /\ IF Cardinality(DOMAIN rd) < rmeta.Data
                            THEN /\ rerr' = "reconstruct"
                                 /\ UNCHANGED <<restored, replica, mainMD,
                                                rioErrors>>
                            ELSE /\ restored' = rebuilt
                                 /\ IF out = "write"
                                      THEN /\ rerr' = "write"
                                           /\ rioErrors' = rioErrors \cup {"write"}
                                           /\ UNCHANGED <<replica, mainMD>>
                                      ELSE /\ replica' = WriteReplica(all, rmeta.Size)
                                           /\ mainMD' = [rmeta EXCEPT !.SliceID = 0]
                                           /\ UNCHANGED <<rerr, rioErrors>>
    /\ upPc' = IF rerr' = "nil" THEN "started" ELSE upPc
    /\ UNCHANGED upCounter
    /\ rpc' = "done"
    /\ writers' = {}
    /\ sinks' = IF rerr' = "nil" THEN sinks ELSE {}
    /\ UNCHANGED <<rreader, rfreed>>
    /\ UNCHANGED requested
    /\ UNCHANGED <<object, rConf, rIsCopy, toDisk, asked, metas, chk, chkVal,
                   chkMax, nodes, rmeta, rslices, rsent, rcbDone, rdecPending>>
    /\ UNCHANGED arrivals
    /\ UNCHANGED workfile
    /\ UNCHANGED notResVars

\* a mutant of MissingReplicas: every target of the list but this one
MissingReplicasAll(md, kept) == 1..md.Parity

\* copyMissingReplicas: the targets of HrwTargetList(parity + 1), this one
\* left out, that are not among the nodes
MissingReplicas(md, kept) == {t \in 1..md.Parity : t \notin kept}

\* restoreReplicatedFromMemory, restoreReplicatedFromDisk, the loop: the
\* nodes are asked for the replica one by one, each answer received into a
\* fresh SGL or into the workfile, until one returns bytes (src; 0: none does,
\* or to disk lom.CreateFile fails), as they are or changed on the way
ReplicaFetch ==
    /\ rpc = "replicated"
    /\ \E src \in nodes \cup {0}, how \in {"intact", "corrupt"} :
         /\ requested' = IF src = 0 THEN nodes ELSE {src}
         /\ IF src = 0
              THEN /\ rerr' = "noreplica"
                   /\ rpc' = "done"
                   /\ UNCHANGED workfile
              ELSE /\ workfile' = IF how = "intact"
                                    THEN Content(metas[src].ObjCksum)
                                    ELSE Corrupt(Content(metas[src].ObjCksum))
                   /\ rpc' = "replwrite"
                   /\ UNCHANGED rerr
    /\ UNCHANGED <<object, rConf, rIsCopy, toDisk, asked, metas, chk, chkVal,
                   chkMax, arrivals, nodes, rmeta, rslices, idToNode, writers,
                   sinks, rreader, rfreed,
                   restored, upPc, upCounter, replica, mainMD, rsent, rcbDone,
                   rdecPending, rioErrors>>
    /\ UNCHANGED notResVars

\* restoreReplicatedFromDisk: `cmn.Rename(tmpFQN, objFQN)`, which may fail
ReplicaRename ==
    /\ rpc = "replwrite" /\ toDisk
    /\ \E ok \in BOOLEAN :
         IF ok THEN /\ replica' = workfile
                    /\ workfile' = <<>>
                    /\ rpc' = "replmeta"
                    /\ UNCHANGED <<rerr, rioErrors>>
               ELSE /\ rerr' = "write"
                    /\ rioErrors' = rioErrors \cup {"write"}
                    /\ rpc' = "done"
                    /\ UNCHANGED <<replica, workfile>>
    /\ UNCHANGED <<object, rConf, rIsCopy, toDisk, asked, metas, chk, chkVal,
                   chkMax, arrivals, nodes, rmeta, rslices, idToNode, requested,
                   writers, sinks, rreader, rfreed, restored, upPc, upCounter, mainMD, rsent, rcbDone,
                   rdecPending>>
    /\ UNCHANGED notResVars

\* a mutant of AfterRename: the Metadata is written before the rename
BeforeRename(at) == at = "replwrite"

\* restoreReplicatedFromDisk: lom.Persist and ctMeta.Write are reached only
\* when cmn.Rename has returned without error
AfterRename(at) == at = "replmeta"

\* restoreReplicatedFromDisk: lom.Persist and ctMeta.Write of the Metadata,
\* either of which may fail
ReplicaPersistMeta ==
    /\ AfterRename(rpc)
    /\ \E ok \in BOOLEAN :
         IF ok THEN /\ mainMD' = rmeta
                    /\ rpc' = "replcopy"
                    /\ UNCHANGED <<rerr, rioErrors>>
               ELSE /\ rerr' = "write"
                    /\ rioErrors' = rioErrors \cup {"write"}
                    /\ rpc' = "done"
                    /\ UNCHANGED mainMD
    /\ UNCHANGED <<object, rConf, rIsCopy, toDisk, asked, metas, chk, chkVal,
                   chkMax, arrivals, nodes, rmeta, rslices, idToNode, requested,
                   writers, sinks, rreader, rfreed, restored, upPc, upCounter, workfile, replica, rsent,
                   rcbDone, rdecPending>>
    /\ UNCHANGED notResVars

\* WriteReplicaAndMeta as restoreReplicatedFromMemory calls it: the checksum
\* of the bytes is compared with args.CksumValue when one is given
ReplicaCksumOK(bytes, md) == md.CksumValue = <<>> \/ Cksum(bytes) = md.CksumValue

\* restoreReplicatedFromMemory: WriteReplicaAndMeta with meta.CksumType and
\* meta.CksumValue writes the replica and the Metadata, or fails
ReplicaWriteAndMeta ==
    /\ rpc = "replwrite" /\ ~toDisk
    /\ \E ok \in BOOLEAN :
         IF ok /\ ReplicaCksumOK(workfile, rmeta)
           THEN /\ replica' = workfile
                /\ mainMD' = rmeta
                /\ rpc' = "replcopy"
                /\ UNCHANGED <<rerr, rioErrors>>
           ELSE /\ rerr' = "write"
                /\ rioErrors' = rioErrors \cup {"write"}
                /\ rpc' = "done"
                /\ UNCHANGED <<replica, mainMD>>
    /\ workfile' = <<>>
    /\ UNCHANGED <<object, rConf, rIsCopy, toDisk, asked, metas, chk, chkVal,
                   chkMax, arrivals, nodes, rmeta, rslices, idToNode, requested,
                   writers, sinks, rreader, rfreed, restored, upPc, upCounter, rsent, rcbDone,
                   rdecPending>>
    /\ UNCHANGED notResVars

\* the ways the push of the missing replicas can end: "open" is the failure
\* of cmn.NewFileHandle(objFQN) of restoreReplicatedFromDisk, before
\* copyMissingReplicas is called; "load", "hrw" and "handle" are the failures
\* of lom.Load, cluster.HrwTargetList and cmn.NewFileHandle(lom.FQN) inside
\* it, "send" an error returned by writeRemote
CopyOutcomes(disk, daemons) ==
    {"ok", "load", "hrw"}
      \cup (IF disk THEN {"open"} ELSE {})
      \cup (IF daemons # {} THEN {"send"} ELSE {})
      \cup (IF disk /\ daemons # {} THEN {"handle"} ELSE {})

\* the calls of freeObject(reader) that copyMissingReplicas makes itself,
\* before it returns: none when lom.Load fails (return err), one when
\* HrwTargetList fails, when no target misses the replica and when the source
\* reader cannot be opened; after that the callback given to writeRemote frees
FreedBeforeReturn(out, daemons) ==
    IF out = "hrw" \/ out = "handle" \/ (out = "ok" /\ daemons = {})
      THEN 1 ELSE 0

\* copyMissingReplicas (before it, to disk, cmn.NewFileHandle): the LOM is
\* loaded and the replica is handed to writeRemote for the targets that miss
\* it, or DecPending is called when none does
CopyMissingReplicas ==
    /\ rpc = "replcopy"
    /\ LET daemons == MissingReplicas(rmeta, nodes)
       IN  \E out \in CopyOutcomes(toDisk, daemons) :
             /\ rreader' = IF out = "open" THEN "none"
                           ELSE IF toDisk THEN "file" ELSE "sgl"
             /\ rfreed' = rfreed + FreedBeforeReturn(out, daemons)
             /\ IF out \in {"open", "load", "hrw"}
                  THEN /\ rerr' = out
                       /\ rioErrors' = rioErrors \cup {out}
                       /\ UNCHANGED <<rsent, rdecPending>>
                  ELSE IF daemons = {}
                  THEN /\ rdecPending' = rdecPending + 1
                       /\ UNCHANGED <<rerr, rsent, rioErrors>>
                  ELSE IF out \in {"handle", "send"}
                  THEN /\ rerr' = out
                       /\ rioErrors' = rioErrors \cup {out}
                       /\ UNCHANGED <<rsent, rdecPending>>
                  ELSE /\ rsent' = rsent \cup
                            {[idx |-> 0, to |-> {TargetAt(t) : t \in daemons},
                              md |-> rmeta, isSlice |-> FALSE]}
                       /\ UNCHANGED <<rerr, rdecPending, rioErrors>>
    /\ rpc' = "done"
    /\ UNCHANGED <<object, rConf, rIsCopy, toDisk, asked, metas, chk, chkVal,
                   chkMax, arrivals, nodes, rmeta, rslices, idToNode, requested,
                   writers, sinks, restored, upPc, upCounter, workfile, replica,
                   mainMD, rcbDone>>
    /\ UNCHANGED notResVars

\* the transport calls the completion callback of the replica send of
\* copyMissingReplicas: freeObject(reader) and DecPending
ReplicaSentCallback ==
    /\ \E s \in rsent :
         /\ ~s.isSlice
         /\ s.idx \notin rcbDone
         /\ rcbDone' = rcbDone \cup {s.idx}
    /\ rfreed' = rfreed + 1
    /\ rdecPending' = rdecPending + 1
    /\ UNCHANGED <<upPc, upCounter>>
    /\ UNCHANGED <<requested, writers, sinks, rreader>>
    /\ UNCHANGED <<rpc, object, rConf, rIsCopy, toDisk, asked, metas, chk,
                   chkVal, chkMax, nodes, rmeta, rslices, idToNode, restored,
                   replica, mainMD, rsent, rerr, rioErrors>>
    /\ UNCHANGED arrivals
    /\ UNCHANGED workfile
    /\ UNCHANGED notResVars

\* emptyTargets: the targets of HrwTargetList(sliceCnt + 1), in that order,
\* this one left out, that are not a value of idToNode
EmptyTargets(md, idmap) ==
    LET RECURSIVE upTo(_)
        upTo(t) == IF t = 0 THEN <<>>
                   ELSE IF \E i \in DOMAIN idmap : idmap[i] = t
                          THEN upTo(t - 1)
                          ELSE Append(upTo(t - 1), t)
    IN  upTo(md.Data + md.Parity)

\* getNextNonEmptySlice from the start, again and again: the ids of the
\* slices rebuilt, in rising order
RestoredIDs(rst) ==
    LET RECURSIVE upTo(_)
        upTo(i) == IF i = 0 THEN <<>>
                   ELSE IF i \in DOMAIN rst THEN Append(upTo(i - 1), i)
                                             ELSE upTo(i - 1)
    IN  upTo(rmeta.Data + rmeta.Parity)

\* a mutant of UploadTarget: the empty targets are taken from the far end
UploadTargetFromEnd(empty, n) == empty[Len(empty) + 1 - n]

\* uploadRestoredSlices: `tid := emptyNodes[0]; emptyNodes = emptyNodes[1:]`,
\* the target of the n-th slice sent
UploadTarget(empty, n) == empty[n]

\* uploadRestoredSlices: the Metadata sent with the rebuilt slice of id sliceID
UploadMeta(md, sliceID, bytes) ==
    [md EXCEPT !.SliceID = sliceID, !.CksumType = "xxhash",
               !.CksumValue = Cksum(bytes)]

\* a mutant of UploadCounter: the count starts after the first slice
UploadCounterFromSecond(ids, empty) ==
    IF Len(empty) = 0 \/ Len(ids) = 0 THEN 0 ELSE Len(ids) - 1

\* uploadRestoredSlices, its first loop: the counter is incremented for each
\* slice getNextNonEmptySlice returns while `len(emptyNodes) != 0`
UploadCounter(ids, empty) == IF Len(empty) = 0 THEN 0 ELSE Len(ids)

\* uploadRestoredSlices, the goroutine restoreEncoded starts: the counter is
\* set to the number of slices rebuilt (0 when there is no empty target, and
\* DecPending is called when it is 0); the slices rebuilt are paired off, in
\* rising order, with the empty targets in HRW order, and each is handed to
\* writeRemote with a clone of the Metadata, which may fail for some (failed);
\* the goroutine then frees the sinks of the slices received (freeSlices)
UploadRestoredSlices ==
    /\ upPc = "started"
    /\ LET empty == EmptyTargets(rmeta, idToNode)
           ids   == RestoredIDs(restored)
           cnt   == UploadCounter(ids, empty)
           n     == Min(Len(ids), Len(empty))
       IN  \E failed \in SUBSET (1..n) :
             /\ upCounter' = cnt
             /\ rdecPending' = IF cnt = 0 THEN rdecPending + 1 ELSE rdecPending
             /\ rsent' = rsent \cup
                   {[idx |-> ids[k], to |-> {TargetAt(UploadTarget(empty, k))},
                     md |-> UploadMeta(rmeta, ids[k], restored[ids[k]]),
                     isSlice |-> TRUE] : k \in (1..n) \ failed}
             /\ rioErrors' = IF failed = {} THEN rioErrors
                                             ELSE rioErrors \cup {"upload"}
    /\ upPc' = "returned"
    /\ UNCHANGED <<rpc, object, rConf, rIsCopy, toDisk, asked, metas, chk,
                   chkVal, chkMax, arrivals, nodes, rmeta, rslices, idToNode,
                   requested, writers, restored, replica, mainMD, rcbDone, rerr>>
    /\ sinks' = {}
    /\ UNCHANGED <<rreader, rfreed>>
    /\ UNCHANGED workfile
    /\ UNCHANGED notResVars

\* the transport calls the completion callback of a slice send of
\* uploadRestoredSlices: the counter is decremented, DecPending at 0
SliceSentCallback ==
    /\ \E s \in rsent :
         /\ s.isSlice
         /\ s.idx \notin rcbDone
         /\ rcbDone' = rcbDone \cup {s.idx}
    /\ upCounter' = upCounter - 1
    /\ rdecPending' = IF upCounter' = 0 THEN rdecPending + 1 ELSE rdecPending
    /\ UNCHANGED <<rpc, object, rConf, rIsCopy, toDisk, asked, metas, chk,
                   chkVal, chkMax, arrivals, nodes, rmeta, rslices, idToNode,
                   requested, writers, sinks, rreader, rfreed, restored, upPc, replica, mainMD, rsent,
                   rerr, rioErrors>>
    /\ UNCHANGED workfile
    /\ UNCHANGED notResVars

ResNext ==
    \/ RestoreStart
    \/ \E t \in Peers : MetaResponse(t)
    \/ MetaGathered
    \/ RequestSlices
    \/ \E k \in Peers : SliceArrives(k)
    \/ WaitReturns
    \/ RestoreMainObj
    \/ ReplicaFetch
    \/ ReplicaRename
    \/ ReplicaPersistMeta
    \/ ReplicaWriteAndMeta
    \/ CopyMissingReplicas
    \/ ReplicaSentCallback
    \/ UploadRestoredSlices
    \/ SliceSentCallback

InitRestore ==
    /\ RunInit /\ EncIdle /\ ResInit /\ GetIdle /\ ObjIdle /\ RspInit
    /\ PutInit /\ FqnIdle /\ BpIdle

SpecRestore == InitRestore /\ [][ResNext]_vars

\* the responders whose Metadata carries the object checksum v
Holders(v) == {k \in DOMAIN metas : metas[k].ObjCksum = v}

\* C2: while the Metadata is gathered and after, no object checksum is
\* reported by more responders than the one selected; and once it is gathered,
\* the nodes returned are exactly the responders whose Metadata carries the
\* selected checksum, the Metadata returned is one of theirs, and slices are
\* requested from them only.
C2_MajorityChecksum ==
    /\ DOMAIN metas # {} =>
         /\ chkVal \in Versions
         /\ \A v \in Versions : Cardinality(Holders(v)) <= Cardinality(Holders(chkVal))
    /\ (DOMAIN metas # {} /\ rpc \notin {"start", "meta"}) =>
         /\ nodes = Holders(chkVal)
         /\ \A k \in DOMAIN metas : k \notin nodes <=> metas[k].ObjCksum # chkVal
         /\ rmeta.ObjCksum = chkVal
         /\ \E k \in nodes : rmeta = metas[k]
         /\ \A i \in DOMAIN idToNode : idToNode[i] \in nodes

\* C2, its case: of four responders one holds another checksum, and the slices
\* were requested from the three others
C2_Witness ==
    /\ rpc = "mainobj"
    /\ Cardinality(Holders("a")) = 1
    /\ Cardinality(Holders("b")) = 3
    /\ nodes = Holders("b")
    /\ DOMAIN idToNode = {metas[k].SliceID : k \in nodes}

\* the slices that arrived as they were encoded
Intact == {i \in DOMAIN rslices :
             /\ rslices[i].present
             /\ rslices[i].bytes = Shard(Content(chkVal), rConf.Data, i)}

\* the slices that did not arrive: not requested, or nothing received
Missing == {i \in DOMAIN rslices : ~rslices[i].present \/ rslices[i].bytes = <<>>}

C12_InsufficientSlices ==
    ( /\ rpc \notin {"start", "meta"}
      /\ DOMAIN metas # {}
      /\ ~rmeta.IsCopy
      /\ Cardinality(Holders(chkVal)) < rmeta.Data )
    => /\ rpc = "done"
       /\ rerr = "insufficient"
       /\ requested = {}
       /\ rslices = <<>> /\ idToNode = <<>>
       /\ writers = {}
       /\ restored = <<>>
       /\ replica = <<>> /\ mainMD = NoMD
       /\ rsent = {}

\* C12, its case: data responders answered, with two object checksums, so
\* that data - 1 of them carry the selected one, and restore has failed
C12_Witness ==
    /\ rpc = "done" /\ ~rIsCopy
    /\ rerr = "insufficient"
    /\ Cardinality(DOMAIN metas) >= rConf.Data
    /\ Cardinality(nodes) = rConf.Data - 1
    /\ nodes # {}

\* C13: once the Metadata has been asked of every peer and none returned one,
\* restore has returned ErrorNoMetafile, no replica and no slice was requested
\* from any peer, and nothing was made locally: no slice sink or workfile, no
\* registered writer, no main replica, no Metadata sidecar, nothing sent.
C13_NoMetafile ==
    ( /\ rpc \notin {"start", "meta"}
      /\ "disabled" \notin rioErrors
      /\ DOMAIN metas = {} )
    => /\ rpc = "done"
       /\ rerr = "NoMetafile"
       /\ asked = Peers
       /\ requested = {}
       /\ rslices = <<>> /\ idToNode = <<>>
       /\ writers = {}
       /\ restored = <<>>
       /\ replica = <<>> /\ mainMD = NoMD
       /\ rsent = {}

\* C13, its case: every peer was asked, none returned a Metadata, and restore
\* has returned
C13_Witness ==
    /\ rpc = "done"
    /\ asked = Peers
    /\ DOMAIN metas = {}
    /\ rerr = "NoMetafile"

\* the object checksums whose count is the highest
Tied == {v \in Versions : chk[v] = chkMax}

\* the place in arrivals of the n-th response that carried the checksum v
NthArrival(v, n) ==
    CHOOSE i \in 1..Len(arrivals) :
        /\ arrivals[i] = v
        /\ Cardinality({k \in 1..i : arrivals[k] = v}) = n

\* C14 as stated: when several object checksums are tied for the highest
\* count, the one selected is the one whose first response came first.
C14_FirstSeenWins ==
    (chkMax > 0 /\ Cardinality(Tied) >= 2)
    => \A v \in Tied : NthArrival(chkVal, 1) <= NthArrival(v, 1)

\* C14, amended: when several object checksums are tied for the highest
\* count, the one selected is the one whose count reached that height first.
C14_FirstToReachWins ==
    (chkMax > 0 /\ Cardinality(Tied) >= 2)
    => /\ chkVal \in Tied
       /\ \A v \in Tied : NthArrival(chkVal, chkMax) <= NthArrival(v, chkMax)

\* C14, its case: all the responses are in, two checksums are tied with two
\* responses each, and the one selected is not the one that was seen first
C14_Witness ==
    /\ rpc = "meta" /\ asked = Peers
    /\ chkMax = 2 /\ Cardinality(Tied) = 2
    /\ chkVal # arrivals[1]

\* the peer the slice i was requested from
SliceHolder(i) == CHOOSE k \in requested : metas[k].SliceID = i

\* the slices received whose checksum differs from that of their Metadata
BadSlices ==
    {i \in DOMAIN rslices :
        /\ SliceUsable(rslices[i])
        /\ Cksum(rslices[i].bytes) # metas[SliceHolder(i)].CksumValue}

\* C15: when restore of an encoded object has written the main replica, every
\* slice received with a wrong checksum was rebuilt, from the other slices
\* only, and the replica is made of the first data slices with the rebuilt
\* bytes, not the received ones, in the place of every such slice.
C15_CorruptSliceDropped ==
    (rpc = "done" /\ ~rIsCopy /\ rerr = "nil" /\ replica # <<>>)
    => /\ \A i \in BadSlices :
            /\ i \in DOMAIN restored
            /\ i \notin DOMAIN idToNode
       /\ replica = WriteReplica(
              ConcatTo([i \in 1..rmeta.Data |->
                           IF SliceUsable(rslices[i]) /\ i \notin BadSlices
                             THEN rslices[i].bytes ELSE restored[i]],
                       rmeta.Data),
              rmeta.Size)

\* the peers whose slice arrived with the checksum of its Metadata
ValidHolders ==
    {SliceHolder(i) : i \in {k \in DOMAIN rslices : SliceUsable(rslices[k])}
                              \ BadSlices}

\* the slice sends handed to the transport
SliceUploads == {s \in rsent : s.isSlice}

SliceCallbacks == {s \in SliceUploads : s.idx \in rcbDone}

\* uploadRestoredSlices, its second loop: the calls of writeRemote, one for
\* each rebuilt slice while an empty target is left
UploadSends ==
    Min(Len(RestoredIDs(restored)), Len(EmptyTargets(rmeta, idToNode)))

C37_NoSinkLeft ==
    rpc = "done" =>
       /\ writers = {}
       /\ sinks = {} \/ (rerr = "nil" /\ upPc = "started")

\* the replica send of copyMissingReplicas whose completion callback is still
\* to come
ReplicaSendInFlight == \E s \in rsent : ~s.isSlice /\ s.idx \notin rcbDone

\* C38: in the push of the missing replicas the reader copyMissingReplicas was
\* given is freed exactly once on every path: at once when no target needs a
\* copy or an error comes before the send is started, else by the callback of
\* the send (an error of writeRemote itself is left aside)
C38_ReaderFreedOnce ==
    (rpc = "done" /\ rreader # "none" /\ rerr # "send")
    => rfreed = (IF ReplicaSendInFlight THEN 0 ELSE 1)

\* the targets the replica was handed to the transport for
ReplicaPushedTo == UNION {s.to : s \in {r \in rsent : ~r.isSlice}}

\* C17 as stated: after a replica restore with no local failure, the replica
\* was handed to the transport for exactly the targets of H(parity + 1), this
\* one left out, that returned no Metadata in phase 1.
C17_PushedToNonResponders ==
    (rpc = "done" /\ rIsCopy /\ rerr = "nil" /\ replica # <<>>)
    => ReplicaPushedTo = {TargetAt(t) : t \in (1..rmeta.Parity) \ DOMAIN metas}

\* C17, amended: after a replica restore with no local failure, the replica
\* was handed to the transport, in one send, for exactly the targets of
\* H(parity + 1), this one left out, that are not among the nodes: those that
\* returned no Metadata and those whose Metadata carried another object
\* checksum than the selected one; when there is none nothing was sent.
C17_PushedToMissingCopies ==
    (rpc = "done" /\ rIsCopy /\ rerr = "nil" /\ replica # <<>>)
    => /\ ReplicaPushedTo = {TargetAt(t) : t \in (1..rmeta.Parity) \ Holders(chkVal)}
       /\ Cardinality(rsent) <= 1
       /\ (1..rmeta.Parity) \ Holders(chkVal) = {} => rsent = {}

\* C17, its case: of the two peers that hold a replica one returned a Metadata
\* with another object checksum than the selected one, and the replica was
\* restored and handed to the transport for that peer
C17_Witness ==
    /\ rpc = "done" /\ rIsCopy /\ rerr = "nil"
    /\ rConf.Parity = 2
    /\ DOMAIN metas = {1, 2}
    /\ Cardinality(nodes) = 1
    /\ ReplicaPushedTo = {TargetAt(t) : t \in {1, 2} \ nodes}

\* C18: in a replica restore the bytes at the final path of the replica are
\* bytes whose checksum is the object checksum of the Metadata (bytes that
\* fail the verification are never renamed into place), the bytes received
\* pass through the workfile, and the Metadata, of SliceID 0, is persisted
\* only once the replica is at its final path.
C18_ReplicaVerifiedThenRenamed ==
    rIsCopy =>
       /\ replica # <<>> => replica = Content(rmeta.ObjCksum)
       /\ mainMD # NoMD => (replica # <<>> /\ mainMD.SliceID = 0)
       /\ rpc = "replmeta" => (replica # <<>> /\ mainMD = NoMD)

WaitInit ==
    /\ rpc = "slices"
    /\ \E obj \in Objects, c \in RestoreConfigs, disk \in BOOLEAN :
         \E resp \in SUBSET (1..(c[1] + c[2])) :
            /\ Cardinality(resp) >= c[1]
            /\ object = obj
            /\ rConf = [Data |-> c[1], Parity |-> c[2]]
            /\ rIsCopy = FALSE
            /\ toDisk = disk
            /\ asked = 1..(c[1] + c[2])
            /\ metas = [k \in resp |-> PeerMD(k, "a")]
            /\ chk = [v \in Versions |-> IF v = "a" THEN Cardinality(resp) ELSE 0]
            /\ chkVal = "a"
            /\ chkMax = Cardinality(resp)
            /\ arrivals = [i \in 1..Cardinality(resp) |-> "a"]
            /\ nodes = resp
            /\ rmeta = PeerMD(CHOOSE k \in resp : \A j \in resp : k <= j, "a")
    /\ rslices = <<>>
    /\ idToNode = <<>>
    /\ requested = {}
    /\ writers = {}
    /\ sinks = {}
    /\ rreader = "none"
    /\ rfreed = 0
    /\ restored = <<>>
    /\ upPc = "none"
    /\ upCounter = 0
    /\ workfile = <<>>
    /\ replica = <<>>
    /\ mainMD = NoMD
    /\ rsent = {}
    /\ rcbDone = {}
    /\ rdecPending = 0
    /\ rerr = "nil"
    /\ rioErrors = {}

InitWait ==
    /\ RunInit /\ EncIdle /\ WaitInit /\ GetIdle /\ ObjIdle /\ RspInit
    /\ PutInit /\ FqnIdle /\ BpIdle

\* restoreEncoded up to its return
WaitNext ==
    \/ RequestSlices
    \/ \E k \in Peers : SliceArrives(k)
    \/ WaitReturns
    \/ RestoreMainObj

\* the goroutine of the restore keeps running, and the timer of WaitTimeout
\* expires: the wait returns and restoreMainObj follows. Nothing makes a peer
\* deliver its slice.
FairSpecWait ==
    /\ InitWait
    /\ [][WaitNext]_vars
    /\ WF_vars(WaitReturns)
    /\ WF_vars(RestoreMainObj)

\* C19: a restore that waits for slices comes to its end, whether or not the
\* peers deliver; the wait ends in no other way than by returning no error,
\* with the slices as they then are; and when the restore ends without error
\* every slice that was requested and did not arrive has been rebuilt.
C19_WaitTimesOut ==
    /\ (rpc = "wait") ~> (rpc = "done")
    /\ [][(rpc = "wait" /\ rpc' # "wait")
            => (rpc' = "mainobj" /\ rerr' = "nil" /\ rslices' = rslices)]_vars
    /\ []((rpc = "done" /\ rerr = "nil")
            => \A k \in Pending :
                  /\ metas[k].SliceID \in DOMAIN restored
                  /\ metas[k].SliceID \notin DOMAIN idToNode)

\* C19, its case: a peer that returned a Metadata did not deliver its slice,
\* the wait ended all the same, and the restore rebuilt that slice and the
\* object
C19_Witness ==
    /\ rpc = "done" /\ rerr = "nil"
    /\ Pending # {}
    /\ \A k \in Pending :
          restored[metas[k].SliceID] = Shard(object, rConf.Data, metas[k].SliceID)
    /\ replica = object

(***************************************************************************)
(* Part 4.  getJogger.run and getJogger.ec                                  *)
(*                                                                         *)
(* run() takes the requests of c.workCh one by one and calls c.ec, which   *)
(* for a restore takes a token of c.sema and starts a goroutine; what the  *)
(* goroutine's call of c.restore does is part 3, here it only returns an   *)
(* error or none.                                                          *)
(***************************************************************************)

\* the capacity of c.sema
SemaCap == 2

\* the most requests sent to the get jogger
MaxJobs == 3

\* the actions of the requests sent to the get jogger
GetActions == {"restore", "other"}

\* the objects of the requests: the values of req.LIF.Uname
Unames == {"o1", "o2"}

InitGet ==
    /\ RunInit /\ EncIdle /\ ResIdle /\ GetStart("select") /\ ObjIdle
    /\ RspInit /\ PutInit /\ FqnIdle /\ BpIdle

\* a caller sends a request on c.workCh
SendWork ==
    /\ gPc # "exited"
    /\ Len(workCh) < MaxQueue
    /\ gAsked < MaxJobs
    /\ \E a \in GetActions, o \in Unames :
          workCh' = Append(workCh, [Action |-> a, Uname |-> o])
    /\ gAsked' = gAsked + 1
    /\ UNCHANGED <<gReq, gStopCh, gPc, sema, jobID, jobs, gor, gLIF, gErrCh,
                   gDecPending>>
    /\ UNCHANGED notGetVars

\* stop(): `c.stopCh <- struct{}{}`
StopGetJogger ==
    /\ gPc # "exited"
    /\ ~gStopCh
    /\ gStopCh' = TRUE
    /\ UNCHANGED <<workCh, gReq, gPc, gAsked, sema, jobID, jobs, gor, gLIF,
                   gErrCh, gDecPending>>
    /\ UNCHANGED notGetVars

\* run: `case <-c.stopCh: return`
GetSelectStop ==
    /\ gPc = "select"
    /\ gStopCh
    /\ gStopCh' = FALSE
    /\ gPc' = "exited"
    /\ UNCHANGED <<workCh, gReq, gAsked, sema, jobID, jobs, gor, gLIF, gErrCh,
                   gDecPending>>
    /\ UNCHANGED notGetVars

\* run: `case req := <-c.workCh` and c.ec(req) up to `c.sema <- struct{}{}`
\* for ActRestore, to its end for any other action: DecPending and the error
\* sent on req.ErrCh
GetSelectWork ==
    /\ gPc = "select"
    /\ workCh # <<>>
    /\ workCh' = Tail(workCh)
    /\ IF Head(workCh).Action = "restore"
         THEN /\ gPc' = "ec"
              /\ gReq' = Head(workCh)
              /\ UNCHANGED gDecPending
         ELSE /\ gDecPending' = gDecPending + 1
              /\ UNCHANGED <<gPc, gReq>>
    /\ UNCHANGED <<gStopCh, gAsked, sema, jobID, jobs, gor, gLIF, gErrCh>>
    /\ UNCHANGED notGetVars

\* a mutant of SemaFree: one token more than the capacity is let in
SemaFreeOverCap(n) == n <= SemaCap

\* `c.sema <- struct{}{}`: the send goes through while the channel is not full
SemaFree(n) == n < SemaCap

\* ec, ActRestore: the token is put into c.sema, the job gets the next id, is
\* put into c.jobs and its goroutine starts
EcRestore ==
    /\ gPc = "ec"
    /\ SemaFree(sema)
    /\ sema' = sema + 1
    /\ jobID' = jobID + 1
    /\ jobs' = jobs \cup {jobID'}
    /\ gor' = gor @@ (jobID' :> "load")
    /\ gLIF' = gLIF @@ (jobID' :> gReq.Uname)
    /\ gReq' = NoReq
    /\ gPc' = "select"
    /\ UNCHANGED <<workCh, gStopCh, gAsked, gErrCh, gDecPending>>
    /\ UNCHANGED notGetVars

\* the callback cb of job j: the job leaves c.jobs and the error goes to ErrCh
JobCallback(j, e) ==
    /\ jobs' = jobs \ {j}
    /\ gErrCh' = gErrCh @@ (j :> e)

\* the goroutine of job j: req.LIF.LOM and lom.Load; on an error other than
\* "not exist" the callback is called, DecPending is called and the goroutine
\* returns
JobLoad(j) ==
    /\ j \in DOMAIN gor
    /\ gor[j] = "load"
    /\ \E ok \in BOOLEAN :
         IF ok THEN /\ gor' = [gor EXCEPT ![j] = "restore"]
                    /\ UNCHANGED <<jobs, gErrCh, gDecPending>>
               ELSE /\ JobCallback(j, "load")
                    /\ gDecPending' = gDecPending + 1
                    /\ gor' = [gor EXCEPT ![j] = "returned"]
    /\ UNCHANGED <<workCh, gReq, gStopCh, gPc, gAsked, sema, jobID, gLIF>>
    /\ UNCHANGED notGetVars

\* the goroutine of job j: c.restore returns, the callback is called with its
\* error, and after a restore without error lom.Persist may fail
JobRestore(j) ==
    /\ j \in DOMAIN gor
    /\ gor[j] = "restore"
    /\ \E e \in {"nil", "restore"}, persisted \in BOOLEAN :
         /\ JobCallback(j, e)
         /\ gor' = [gor EXCEPT ![j] =
                       IF e = "nil" /\ persisted THEN "release" ELSE "releaseErr"]
    /\ UNCHANGED <<workCh, gReq, gStopCh, gPc, gAsked, sema, jobID, gLIF,
                   gDecPending>>
    /\ UNCHANGED notGetVars

\* the goroutine of job j: `<-c.sema`, DecPending when err is not nil, return
JobRelease(j) ==
    /\ j \in DOMAIN gor
    /\ gor[j] \in {"release", "releaseErr"}
    /\ sema > 0
    /\ sema' = sema - 1
    /\ gDecPending' = IF gor[j] = "releaseErr" THEN gDecPending + 1
                                                ELSE gDecPending
    /\ gor' = [gor EXCEPT ![j] = "returned"]
    /\ UNCHANGED <<workCh, gReq, gStopCh, gPc, gAsked, jobID, jobs, gLIF, gErrCh>>
    /\ UNCHANGED notGetVars

GetNext ==
    \/ SendWork
    \/ StopGetJogger
    \/ GetSelectStop
    \/ GetSelectWork
    \/ EcRestore
    \/ \E j \in 1..MaxJobs : JobLoad(j)
    \/ \E j \in 1..MaxJobs : JobRestore(j)
    \/ \E j \in 1..MaxJobs : JobRelease(j)

SpecGet == InitGet /\ [][GetNext]_vars

\* the restores that run: the goroutines that have not yet given their token
\* back nor returned
RunningRestores == {j \in DOMAIN gor : gor[j] \in {"load", "restore", "release",
                                                    "releaseErr"}}

\* C11: at no time do more restores run than c.sema has room for, and while
\* c.sema is full no step starts a restore: a restore starts only in a step
\* before which a token was free.
C11_SemaBoundsRestores ==
    /\ [](Cardinality(RunningRestores) <= sema /\ sema <= SemaCap)
    /\ [][sema = SemaCap => DOMAIN gor' = DOMAIN gor]_vars

\* C11, its case: c.sema is full, as many restores run as it holds, and run()
\* stands in c.ec with one more restore that waits for a token
C11_Witness ==
    /\ sema = SemaCap
    /\ Cardinality(RunningRestores) = SemaCap
    /\ gPc = "ec"

\* the jobs whose goroutine is inside c.restore
InRestore == {j \in DOMAIN gor : gor[j] = "restore"}

\* C22: for a given object at most one restore of the get jogger runs at any
\* time: no two goroutines are inside c.restore for requests of the same
\* req.LIF.Uname.
C22_OneRestorePerObject ==
    \A j1, j2 \in InRestore : gLIF[j1] = gLIF[j2] => j1 = j2

\* C34: the pending count is decremented once for every restore request, by
\* the scheduler when the restore fails and by the background sends (or at
\* once when nothing is to be sent) when it succeeds: the goroutine of a
\* restore whose callback was given no error returns without a DecPending of
\* its own.
C34_SchedulerDecrementsOnlyOnFailure ==
    [][\A j \in DOMAIN gor :
          ( /\ gor[j] # "returned" /\ gor'[j] = "returned"
            /\ j \in DOMAIN gErrCh' /\ gErrCh'[j] = "nil" )
             => gDecPending' = gDecPending]_vars

\* the tokens of c.sema held for restores that have returned
LeakedTokens == sema - Cardinality(RunningRestores)

\* C35: every token put into c.sema for a restore is taken out when the
\* restore ends, however it ends: c.sema holds no more tokens than there
\* are restores that run.
C35_SemaReleased == LeakedTokens = 0

(***************************************************************************)
(* Part 5.  getObjInfo.getObject: checksum validation and recovery          *)
(*                                                                         *)
(* One GET of one object. The file of the object is told apart only by     *)
(* whether its content has the checksum of the LOM; nothing but this GET   *)
(* changes the files while it runs.                                         *)
(***************************************************************************)

\* the states of the file of the object and of its local copies
FileStates == {"good", "bad", "absent"}

ObjInit ==
    \E ais, hasCopies, ecEnabled, validate \in BOOLEAN, file, copy \in FileStates :
       /\ ~hasCopies => copy = "absent"
       /\ ObjStart("do", [ais |-> ais, hasCopies |-> hasCopies,
                          ecEnabled |-> ecEnabled, validate |-> validate],
                   file, copy)

InitObj ==
    /\ RunInit /\ EncIdle /\ ResIdle /\ GetIdle /\ ObjInit /\ RspInit
    /\ PutInit /\ FqnIdle /\ BpIdle

\* the locks held after the calls ops ("U": lom.Unlock(false), "L":
\* lom.Lock(false)) made in this order with h locks held
HeldAfter(h, ops) ==
    LET RECURSIVE upTo(_)
        upTo(n) == IF n = 0 THEN h
                   ELSE IF ops[n] = "L" THEN upTo(n - 1) + 1
                   ELSE IF upTo(n - 1) > 0 THEN upTo(n - 1) - 1 ELSE 0
    IN  upTo(Len(ops))

\* one of the calls ops is an Unlock with no lock held
UnlocksUnheld(h, ops) ==
    \E n \in 1..Len(ops) : ops[n] = "U" /\ HeldAfter(h, SubSeq(ops, 1, n - 1)) = 0

\* the GET makes the calls ops in this order
Locking(ops) ==
    /\ goHeld' = HeldAfter(goHeld, ops)
    /\ goBadUnlock' = (goBadUnlock \/ UnlocksUnheld(goHeld, ops))

\* a mutant of DropAndRetake: the lock is not taken again
DropNoRetake == <<"U">>

\* the lock dropped for a restore, a recovery or a version check and taken
\* again after it: `goi.lom.Unlock(false)` ... `goi.lom.Lock(false)`
DropAndRetake == <<"U", "L">>

\* getObject, from the label do to the call of tryRecoverObject: the calls
\* it makes on the lock. A failed lom.Load and no space unlock and return;
\* tryRestoreObject and CheckRemoteVersion run without the lock, which is
\* taken again only when they succeed
DoLocking(returns, dropped) ==
    IF dropped THEN (IF returns THEN <<"U">> ELSE DropAndRetake)
    ELSE IF returns THEN <<"U">> ELSE <<>>

\* tryRecoverObject and the `if err != nil { if !coldGet {` after it: the
\* calls on the lock; the lock is dropped around lom.RestoreObjectFromAny
\* (tried: there are copies) and around tryRestoreObject (tried: EC is
\* enabled and no copy restored the object), and getObject unlocks when it
\* returns the error
RecoverLocking(returns, triedCopy, triedEC) ==
    (IF triedCopy THEN DropAndRetake ELSE <<>>)
      \o (IF triedEC THEN DropAndRetake ELSE <<>>)
      \o (IF returns THEN <<"U">> ELSE <<>>)

\* t.GetCold(ctx, lom, cluster.GetCold) is called with the shared lock held;
\* after an error the lock is no longer held, getObject returns without
\* unlocking; without error the shared lock is held as before
GetColdUnlocks(out) == IF out = "err" THEN <<"U">> ELSE <<>>

\* getObject, the cold GET: no space unlocks and returns
ColdLocking(out) == IF out = "oos" THEN <<"U">> ELSE GetColdUnlocks(out)

\* getObject from the label get: `goi.lom.Unlock(false)` before the return,
\* nothing before `goto do`
FinalizeLocking(retry) == IF retry THEN <<>> ELSE <<"U">>

\* getObject returns the error e
GetReturns(e) ==
    /\ goPc' = "done"
    /\ goErr' = e

\* a mutant of RemoveCorrupted: the corrupted object is left in place
RemoveSkipped == UNCHANGED <<goRemoved, goFile>>

\* lom.Remove of the corrupted object, which may fail
RemoveCorrupted ==
    \E ok \in BOOLEAN :
       /\ goRemoved' = IF ok THEN "ok" ELSE "failed"
       /\ goFile' = IF ok THEN "absent" ELSE goFile

\* getObject from the label do to the call of tryRecoverObject, of GetCold or
\* of finalize: lom.Load (a missing file makes the GET cold; out of space and
\* other errors end it), tryRestoreObject for a missing object of an ais
\* bucket, the version check of a remote bucket
GetObjectDo ==
    /\ goPc = "do"
    /\ \E load \in {"ok", "oos", "err"},
          restore \in {"good", "bad", "fail"},
          version \in {"same", "changed", "err"} :
         LET cold == goColdGet \/ goFile = "absent"
         IN  IF load = "err" /\ goFile # "absent"
               THEN /\ GetReturns("other")
                    /\ Locking(DoLocking(TRUE, FALSE))
                    /\ UNCHANGED <<goFile, goColdGet, recRetried>>
             ELSE IF load = "oos" /\ goFile = "absent"
               THEN /\ GetReturns("oos")
                    /\ Locking(DoLocking(TRUE, FALSE))
                    /\ UNCHANGED <<goFile, goColdGet, recRetried>>
             ELSE IF cold /\ goCfg.ais
               THEN /\ goColdGet' = TRUE
                    /\ Locking(DoLocking(restore = "fail", TRUE))
                    /\ IF restore = "fail"
                         THEN /\ GetReturns("notfound")
                              /\ UNCHANGED goFile
                         ELSE /\ goFile' = restore
                              /\ goPc' = "get"
                              /\ UNCHANGED goErr
                    /\ UNCHANGED recRetried
             ELSE IF ~cold /\ ~goCfg.ais /\ version = "err"
               THEN /\ GetReturns("other")
                    /\ Locking(DoLocking(TRUE, TRUE))
                    /\ UNCHANGED <<goFile, goColdGet, recRetried>>
             ELSE LET cold2 == cold \/ (~goCfg.ais /\ version = "changed")
                  IN  /\ goColdGet' = cold2
                      /\ Locking(DoLocking(FALSE, ~cold /\ ~goCfg.ais))
                      /\ goPc' = IF ~cold2 /\ goCfg.validate THEN "recover"
                                 ELSE IF cold2 THEN "coldget" ELSE "get"
                      /\ recRetried' = FALSE
                      /\ UNCHANGED <<goFile, goErr>>
    /\ UNCHANGED <<goCfg, goCopy, goRetried, goRounds, goFailedAfter, goRemoved,
                   goFile0, goSent>>
    /\ UNCHANGED notObjVars

\* a mutant of GivesUp: an earlier recovery does not end the recovering
GivesUpNoRedundancy(retried, redundant) == ~redundant

\* tryRecoverObject: `if retried || !redundant`
GivesUp(retried, redundant) == retried \/ ~redundant

\* tryRecoverObject, once from its label retry: the checksums are validated;
\* without error it returns and getObject goes on to finalize; an error that
\* is no BadCksumError ends the GET; on a BadCksumError a bucket that is not
\* ais goes to the cold GET, else with no redundancy or after an earlier
\* recovery the object is removed and the GET ends with the error, else the
\* file is removed and the object is restored from a local copy or, failing
\* that, from the EC slices, and validated again (goto retry); when neither
\* restores it the object is removed and the GET ends with the last error
TryRecoverObject ==
    /\ goPc = "recover"
    /\ \E ioerr, copied \in BOOLEAN, ec \in {"good", "bad", "fail"} :
         LET redundant == goCfg.hasCopies \/ goCfg.ecEnabled
             fromCopy  == goCfg.hasCopies /\ copied /\ goCopy # "absent"
             round     == IF goRounds = 0 THEN 1 ELSE 2
         IN  IF ioerr \/ goFile = "absent"
               THEN /\ GetReturns("other")
                    /\ Locking(RecoverLocking(TRUE, FALSE, FALSE))
                    /\ UNCHANGED <<goFile, goColdGet, recRetried, goRounds,
                                   goFailedAfter, goRemoved>>
             ELSE IF goFile = "good"
               THEN /\ goPc' = "get"
                    /\ Locking(RecoverLocking(FALSE, FALSE, FALSE))
                    /\ UNCHANGED <<goFile, goColdGet, recRetried, goErr, goRounds,
                                   goFailedAfter, goRemoved>>
             ELSE /\ goFailedAfter' = (goFailedAfter \/ goRounds > 0)
                  /\ IF ~goCfg.ais
                       THEN /\ goColdGet' = TRUE
                            /\ goPc' = "coldget"
                            /\ Locking(RecoverLocking(FALSE, FALSE, FALSE))
                            /\ UNCHANGED <<goFile, recRetried, goErr, goRounds,
                                           goRemoved>>
                     ELSE IF GivesUp(recRetried, redundant)
                       THEN /\ RemoveCorrupted
                            /\ GetReturns("badcksum")
                            /\ Locking(RecoverLocking(TRUE, FALSE, FALSE))
                            /\ UNCHANGED <<goColdGet, recRetried, goRounds>>
                     ELSE /\ goRounds' = round
                          /\ recRetried' = TRUE
                          /\ UNCHANGED goColdGet
                          /\ Locking(RecoverLocking(
                                 ~fromCopy /\ ~(goCfg.ecEnabled /\ ec # "fail"),
                                 goCfg.hasCopies,
                                 ~fromCopy /\ goCfg.ecEnabled))
                          /\ IF fromCopy
                               THEN /\ goFile' = goCopy
                                    /\ UNCHANGED <<goPc, goErr, goRemoved>>
                             ELSE IF goCfg.ecEnabled /\ ec # "fail"
                               THEN /\ goFile' = ec
                                    /\ UNCHANGED <<goPc, goErr, goRemoved>>
                             ELSE /\ goRemoved' = "ok"
                                  /\ goFile' = "absent"
                                  /\ GetReturns(IF goCfg.ecEnabled THEN "restore"
                                                                   ELSE "badcksum")
    /\ UNCHANGED <<goCfg, goCopy, goRetried, goFile0, goSent>>
    /\ UNCHANGED notObjVars

\* getObject, the cold GET: out of space, or GetCold, which may fail
GetCold ==
    /\ goPc = "coldget"
    /\ \E out \in {"ok", "oos", "err"} :
         /\ Locking(ColdLocking(out))
         /\ IF out = "ok" THEN /\ goFile' = "good"
                               /\ goPc' = "get"
                               /\ UNCHANGED goErr
                          ELSE /\ GetReturns(out)
                               /\ UNCHANGED goFile
    /\ UNCHANGED <<goCfg, goCopy, goRetried, goColdGet, recRetried, goRounds,
                   goFailedAfter, goRemoved, goFile0, goSent>>
    /\ UNCHANGED notObjVars

\* finalize: the files lom.LoadBalanceGET may choose, lom.FQN or the file
\* of a local copy when the GET is not cold
LoadBalanceGET ==
    {goFile} \cup (IF ~goColdGet /\ goCfg.hasCopies THEN {goCopy} ELSE {})

\* getObject from the label get: finalize opens the file, that of a copy when
\* the GET is not cold, and sends it; when the file does not exist the GET
\* is retried from the label do, once
Finalize ==
    /\ goPc = "get"
    /\ \E open \in {"ok", "notexist", "err"}, src \in LoadBalanceGET :
         /\ open = "ok" => src # "absent"
         /\ open = "notexist" =>
               (src = "absent" \/ (~goColdGet /\ goCfg.hasCopies))
         /\ Locking(FinalizeLocking(open = "notexist" /\ ~goRetried))
         /\ IF open = "notexist" /\ ~goRetried
              THEN /\ goRetried' = TRUE
                   /\ goPc' = "do"
                   /\ UNCHANGED <<goErr, goSent>>
              ELSE /\ GetReturns(IF open = "ok" THEN "nil"
                                 ELSE IF open = "err" THEN "other" ELSE "notfound")
                   /\ goSent' = IF open = "ok" THEN src ELSE goSent
                   /\ UNCHANGED goRetried
    /\ UNCHANGED <<goCfg, goFile, goCopy, goColdGet, recRetried, goRounds,
                   goFailedAfter, goRemoved, goFile0>>
    /\ UNCHANGED notObjVars

ObjNext ==
    \/ GetObjectDo
    \/ TryRecoverObject
    \/ GetCold
    \/ Finalize

SpecObj == InitObj /\ [][ObjNext]_vars

C20_OneRecoveryRetry ==
    /\ goRounds <= 1
    /\ goFailedAfter =>
          /\ goPc = "done"
          /\ goErr = "badcksum"
          /\ goRemoved # "none"
          /\ goRemoved = "ok" => goFile = "absent"

\* C20, its case: the object of a bucket with local copies and EC failed the
\* validation, was restored, failed it again, and the GET ended with the
\* bad-checksum error and the object removed
C20_Witness ==
    /\ goPc = "done"
    /\ goCfg.hasCopies /\ goCfg.ecEnabled
    /\ goRounds = 1
    /\ goFailedAfter
    /\ goErr = "badcksum"
    /\ goFile = "absent"

\* the GET of C21: checksum validation is on, the bucket has neither local
\* copies nor EC, and the content of the object did not have the checksum of
\* the LOM when the GET began
CorruptedNoRedundancy ==
    /\ goCfg.validate
    /\ ~goCfg.hasCopies /\ ~goCfg.ecEnabled
    /\ goFile0 = "bad"

\* C21 as stated: the GET of a corrupted object of a bucket without local
\* copies and without EC, with checksum validation, sends no corrupted bytes
\* and ends with an error.
C21_CorruptedGetFails ==
    CorruptedNoRedundancy =>
       /\ goSent # "bad"
       /\ goPc = "done" => goErr # "nil"

\* C21: the GET of a corrupted object of a bucket without local copies and
\* without EC, with checksum validation, never sends the corrupted bytes; in
\* an ais bucket it ends with an error, and when that error is the bad
\* checksum lom.Remove was called on the object, which is gone unless the
\* removal failed; in a remote bucket a GET that ends without error has
\* fetched the object anew by a cold GET and sent that.
C21_CorruptedNeverServed ==
    CorruptedNoRedundancy =>
       /\ goSent # "bad"
       /\ goPc = "done" /\ goCfg.ais =>
             /\ goErr # "nil"
             /\ goSent = "none"
             /\ goErr = "badcksum" =>
                   /\ goRemoved # "none"
                   /\ goRemoved = "ok" => goFile = "absent"
       /\ goPc = "done" /\ ~goCfg.ais /\ goErr = "nil" =>
             goColdGet /\ goSent = "good"

\* C21, its case: the corrupted object of an ais bucket without redundancy
\* failed the validation, was removed, and the GET ended with the error
C21_Witness ==
    /\ CorruptedNoRedundancy
    /\ goCfg.ais
    /\ goPc = "done"
    /\ goErr = "badcksum"
    /\ goRemoved = "ok"
    /\ goFile = "absent"
    /\ goSent = "none"

(***************************************************************************)
(* Part 6.  XactRespond: DispatchReq and DispatchResp                       *)
(*                                                                         *)
(* The responder of one target handles the requests and the responses of   *)
(* the other targets for one object, each call as one step.                *)
(***************************************************************************)

\* the most requests and responses the responder handles
MaxReqs == 3

\* removeObjAndMeta: `[]string{MetaType, fs.ObjectType, SliceType}`
ContentTypes == <<"mt", "ob", "ec">>

InitRespond ==
    /\ RunInit /\ EncIdle /\ ResIdle /\ GetIdle /\ ObjIdle /\ RspInit
    /\ PutInit /\ FqnIdle /\ BpIdle

\* the responder has handled one more request
Handled(act, isSlice, hasMeta, e) ==
    /\ rspHandled < MaxReqs
    /\ rspHandled' = rspHandled + 1
    /\ rspLast' = [act |-> act, isSlice |-> isSlice, hasMeta |-> hasMeta, err |-> e]

\* a mutant of DoCleanup: DispatchReq always decrements
DoCleanupAlways(act, e) == TRUE

\* DispatchReq: `doCleanup := true`, and for reqGet `doCleanup = err != nil`
DoCleanup(act, e) == ~(act = "reqGet" /\ e = "nil")

\* DispatchReq: `r.IncPending()` at the start and, `if doCleanup`,
\* `r.DecPending()` at the end
ReqPending(act, e) ==
    LET dec == IF DoCleanup(act, e) THEN 1 ELSE 0
    IN  /\ rspIncs' = rspIncs + 1
        /\ rspDecs' = rspDecs + dec
        /\ rspPending' = rspPending + 1 - dec

\* DispatchResp: `r.IncPending()` and `defer r.DecPending()`
RespPending ==
    /\ rspIncs' = rspIncs + 1
    /\ rspDecs' = rspDecs + 1
    /\ rspPending' = rspPending + 1 - 1

\* DispatchReq, reqDel: removeObjAndMeta goes through the content types in
\* order and returns at the first one whose cluster.HrwFQN ("fqn") or
\* os.RemoveAll ("rm") fails (fail: its position, 0 when none fails);
\* DispatchReq logs the error; IncPending at the start, DecPending at the end
DispatchReqDel ==
    /\ \E fail \in 0..Len(ContentTypes), how \in {"fqn", "rm"} :
         LET done  == IF fail = 0 THEN Len(ContentTypes) ELSE fail - 1
             tried == IF fail # 0 /\ how = "rm" THEN fail ELSE done
         IN  /\ (fail # 0 /\ how = "rm") => ctFiles[ContentTypes[fail]]
             /\ ctFiles' = [t \in DOMAIN ctFiles |->
                              IF \E i \in 1..done : ContentTypes[i] = t
                                THEN FALSE ELSE ctFiles[t]]
             /\ rmTried' = SubSeq(ContentTypes, 1, tried)
             /\ Handled("reqDel", FALSE, FALSE, IF fail = 0 THEN "nil" ELSE how)
             /\ ReqPending("reqDel", IF fail = 0 THEN "nil" ELSE how)
    /\ UNCHANGED <<rspInFlight, rspObjects, rspBytes, drained>>
    /\ UNCHANGED notRspVars

\* DispatchReq, reqGet: trySendCT; for a slice the CT is made and its MD
\* loaded, which fails when there is no metafile; dataResponse hands the
\* file to the transport or fails. Without error the pending count stays
\* incremented until the callback of the send runs
DispatchReqGet ==
    /\ \E isSlice, ok \in BOOLEAN :
         LET e == IF isSlice /\ ~ctFiles["mt"] THEN "nometafile"
                  ELSE IF ~ok THEN "send" ELSE "nil"
         IN  /\ Handled("reqGet", isSlice, FALSE, e)
             /\ ReqPending("reqGet", e)
             /\ rspInFlight' = rspInFlight + (IF e = "nil" THEN 1 ELSE 0)
    /\ UNCHANGED <<ctFiles, rspObjects, rspBytes, drained, rmTried>>
    /\ UNCHANGED notRspVars

\* the transport calls the callback of a send of dataResponse: DecPending
RespSentCallback ==
    /\ rspInFlight > 0
    /\ rspInFlight' = rspInFlight - 1
    /\ rspPending' = rspPending - 1
    /\ rspDecs' = rspDecs + 1
    /\ UNCHANGED <<ctFiles, rspIncs, rspObjects, rspBytes, drained, rmTried, rspLast,
                   rspHandled>>
    /\ UNCHANGED notRspVars

\* DispatchReq, default: an invalid request type is logged
DispatchReqInvalid ==
    /\ Handled("invalidReq", FALSE, FALSE, "invalid")
    /\ ReqPending("invalidReq", "invalid")
    /\ UNCHANGED <<ctFiles, rspInFlight, rspObjects, rspBytes,
                   drained, rmTried>>
    /\ UNCHANGED notRspVars

\* a mutant of MetaMissing: a request without metadata is not turned away
MetaMissingIgnored(hasMeta) == FALSE

\* DispatchResp, reqPut: `if meta == nil`
MetaMissing(hasMeta) == ~hasMeta

\* DispatchResp, reqPut: the content type WriteSliceAndMeta or
\* WriteReplicaAndMeta writes
PutType(isSlice) == IF isSlice THEN "ec" ELSE "ob"

\* DispatchResp, reqPut: a request without metadata is drained and logged;
\* else WriteSliceAndMeta, or LomFromHeader (which may fail, "lom") and
\* WriteReplicaAndMeta, write the content and the MD; on an error ("write",
\* after which the content may or may not be left behind) the payload is
\* drained and the error logged, else the object and its bytes are counted
DispatchRespPut ==
    /\ \E isSlice, hasMeta, left \in BOOLEAN, size \in 1..MaxSize,
          out \in {"ok", "lom", "write"} :
         /\ out = "lom" => ~isSlice
         /\ IF MetaMissing(hasMeta)
              THEN /\ Handled("reqPut", isSlice, hasMeta, "nometa")
                   /\ drained' = drained + 1
                   /\ UNCHANGED <<ctFiles, rspObjects, rspBytes>>
              ELSE IF out = "ok"
              THEN /\ Handled("reqPut", isSlice, hasMeta, "nil")
                   /\ ctFiles' = [ctFiles EXCEPT ![PutType(isSlice)] = TRUE,
                                                 !["mt"] = TRUE]
                   /\ rspObjects' = rspObjects + 1
                   /\ rspBytes' = rspBytes + size
                   /\ UNCHANGED drained
              ELSE /\ Handled("reqPut", isSlice, hasMeta, out)
                   /\ ctFiles' = IF out = "write" /\ left
                                   THEN [ctFiles EXCEPT ![PutType(isSlice)] = TRUE]
                                   ELSE ctFiles
                   /\ drained' = drained + 1
                   /\ UNCHANGED <<rspObjects, rspBytes>>
    /\ RespPending
    /\ UNCHANGED <<rspInFlight, rmTried>>
    /\ UNCHANGED notRspVars

\* DispatchResp, default: an invalid request type is logged
DispatchRespInvalid ==
    /\ Handled("invalidResp", FALSE, FALSE, "invalid")
    /\ RespPending
    /\ UNCHANGED <<ctFiles, rspInFlight, rspObjects, rspBytes,
                   drained, rmTried>>
    /\ UNCHANGED notRspVars

RspNext ==
    \/ DispatchReqDel
    \/ DispatchReqGet
    \/ RespSentCallback
    \/ DispatchReqInvalid
    \/ DispatchRespPut
    \/ DispatchRespInvalid

SpecRespond == InitRespond /\ [][RspNext]_vars

\* C28: on a DEL request the responder removes the MD, then the replica,
\* then the slice, best-effort: when no removal fails, or when os.RemoveAll
\* fails for one of them, the removal of all three was attempted, in this
\* order.
C28_DelBestEffort ==
    (rspLast.act = "reqDel" /\ rspLast.err \in {"nil", "rm"}) =>
       rmTried = ContentTypes

\* C30: a PUT of a slice or of a replica that carries no metadata is turned
\* away: the step that handles it drains the payload once, logs, writes no
\* file and counts neither an object nor bytes.
C30_NoMetaNothingStored ==
    [][(rspHandled' = rspHandled + 1 /\ rspLast'.act = "reqPut"
          /\ ~rspLast'.hasMeta) =>
         /\ rspLast'.err = "nometa"
         /\ drained' = drained + 1
         /\ ctFiles' = ctFiles
         /\ rspObjects' = rspObjects
         /\ rspBytes' = rspBytes]_vars

\* C30, its case: the responder, which holds no file of the object, has been
\* sent a slice without metadata, has drained it and stored and counted
\* nothing
C30_Witness ==
    /\ rspLast.act = "reqPut" /\ rspLast.isSlice /\ ~rspLast.hasMeta
    /\ rspLast.err = "nometa"
    /\ drained = 1
    /\ \A t \in DOMAIN ctFiles : ~ctFiles[t]
    /\ rspObjects = 0 /\ rspBytes = 0

\* C39: every request the responder handles increments the pending count
\* once and decrements it once: DispatchReq decrements itself for DEL, for an
\* invalid request and for a GET that fails before the send, and leaves it to
\* the callback of the send for a GET whose send was started; DispatchResp
\* decrements on return. So the increments are the requests handled, the
\* decrements are those less the sends in flight, and the count is the
\* number of sends in flight.
C39_PendingOncePerRequest ==
    /\ rspIncs = rspHandled
    /\ rspDecs = rspHandled - rspInFlight
    /\ rspPending = rspInFlight
    /\ rspInFlight >= 0

\* C39, its case: the responder has handled a GET whose send was started and
\* whose callback has run, and a request it cleaned up after itself
C39_Witness ==
    /\ rspHandled >= 2
    /\ rspLast.act = "reqGet" /\ rspLast.err = "nil"
    /\ rspInFlight = 0
    /\ rspDecs = rspHandled

(***************************************************************************)
(* Part 7.  putObjInfo.putObject and the encode it ends with               *)
(*                                                                         *)
(* One target handles PUTs of one object name, and requests to encode the  *)
(* object it has stored, each as one step.                                 *)
(***************************************************************************)

\* the most PUTs and encodes the target handles
MaxPuts == 4

\* the contents a client PUTs, each named by its checksum
Bodies == {"a", "b"}

InitPut ==
    /\ RunInit /\ EncIdle /\ ResIdle /\ GetIdle /\ ObjIdle /\ RspInit
    /\ PutInit /\ FqnIdle /\ BpIdle

\* putObject: "optimize out if the checksums do match"
CksumsMatch(cksumToUse) == cksumToUse # "" /\ poCksum = cksumToUse

\* putJogger.encode of the object with checksum ck: nothing is done when the
\* targets are too few; else the MD is written, with no look at the MD that
\* is there, and the replicas or slices are sent; a failed send ends in
\* cleanup, that removes the MD
Encode(ck, enough, mdOk, sendOk) ==
    IF ~enough \/ ~mdOk
    THEN UNCHANGED <<poMD, poMDWrites, poSends>>
    ELSE /\ poMDWrites' = poMDWrites + 1
         /\ poSends' = poSends + 1
         /\ poMD' = IF sendOk THEN ck ELSE "none"

\* the error of encode
EncodeErr(enough, mdOk, sendOk) ==
    IF ~enough THEN "targets"
    ELSE IF ~mdOk THEN "mdwrite" ELSE IF ~sendOk THEN "send" ELSE "nil"

\* putObject: a PUT of `body`, whose header may carry a checksum
PutObject ==
    /\ poOps < MaxPuts
    /\ poOps' = poOps + 1
    /\ \E cksumToUse \in {""} \cup Bodies, body \in Bodies,
          validate, wrOk, finOk, skipEC, enough, mdOk, sendOk \in BOOLEAN :
          IF CksumsMatch(cksumToUse)
          THEN /\ poLast' = [op |-> "put", cksumToUse |-> cksumToUse,
                             err |-> "nil"]
               /\ UNCHANGED <<poCksum, poMD, poWrites, poMDWrites, poSends>>
          ELSE IF ~wrOk \/ (validate /\ cksumToUse \notin {"", body})
          THEN /\ poLast' = [op |-> "put", cksumToUse |-> cksumToUse,
                             err |-> IF wrOk THEN "badcksum" ELSE "write"]
               /\ UNCHANGED <<poCksum, poMD, poWrites, poMDWrites, poSends>>
          ELSE IF ~finOk
          THEN /\ poLast' = [op |-> "put", cksumToUse |-> cksumToUse,
                             err |-> "finalize"]
               /\ UNCHANGED <<poCksum, poMD, poWrites, poMDWrites, poSends>>
          ELSE /\ poCksum' = body
               /\ poWrites' = poWrites + 1
               /\ IF skipEC
                  THEN /\ UNCHANGED <<poMD, poMDWrites, poSends>>
                       /\ poLast' = [op |-> "put", cksumToUse |-> cksumToUse,
                                     err |-> "nil"]
                  ELSE /\ Encode(body, enough, mdOk, sendOk)
                       /\ poLast' = [op |-> "put", cksumToUse |-> cksumToUse,
                                     err |-> EncodeErr(enough, mdOk, sendOk)]
    /\ UNCHANGED notPutVars

\* ECM.EncodeObject for the stored object: the put jogger runs encode for it
EncodeObject ==
    /\ poOps < MaxPuts
    /\ poCksum # ""
    /\ poOps' = poOps + 1
    /\ \E enough, mdOk, sendOk \in BOOLEAN :
          /\ Encode(poCksum, enough, mdOk, sendOk)
          /\ poLast' = [op |-> "encode", cksumToUse |-> "",
                        err |-> EncodeErr(enough, mdOk, sendOk)]
    /\ UNCHANGED <<poCksum, poWrites>>
    /\ UNCHANGED notPutVars

PutNext ==
    \/ PutObject
    \/ EncodeObject

SpecPut == InitPut /\ [][PutNext]_vars

\* the object is stored and encoded: its MD holds its checksum
Unchanged == poCksum # "" /\ poMD = poCksum

\* C31: once an object has been PUT and encoded, a PUT that carries the
\* checksum of the stored object, and an encode of the stored object, write
\* no object file, write no MD and send no slice or replica.
C31_RerunIsNoOp ==
    [][(Unchanged /\ poOps' = poOps + 1
          /\ (poLast'.op = "encode" \/ poLast'.cksumToUse = poCksum)) =>
         UNCHANGED <<poWrites, poMDWrites, poSends>>]_vars

(***************************************************************************)
(* Part 8.  MakePathFQN and ParseFQN                                        *)
(*                                                                         *)
(* A string is a sequence of characters.  A path is built from a mountpath,*)
(* a bucket, a content type and an object name, and is then parsed against *)
(* the registered mountpaths, character by character.                      *)
(***************************************************************************)

\* the longest bucket name, object name and part of a namespace
MaxName == 2

\* the strings over the characters S of at most n characters
StrUpTo(S, n) == UNION {[1..k -> S] : k \in 0..n}

\* the mountpaths of TestParseFQN, shortened: one inside the other
MpathShort == <<"/", "m">>

MpathLong == <<"/", "m", "/", "m">>

MpathSets == {{MpathShort}, {MpathLong}, {MpathShort, MpathLong}}

\* cmn.ProviderAIS, cmn.ProviderAmazon, cmn.ProviderGoogle
Providers == {<<"a", "i", "s">>, <<"a", "w", "s">>, <<"g", "c", "p">>}

\* fs.ObjectType and fs.WorkfileType, registered with fs.CSM
RegisteredContentTypes == {<<"o", "b">>, <<"w", "k">>}

\* the namespaces: global, with a name, of a remote cluster (UUID), both
Namespaces ==
    [UUID : StrUpTo({"u"}, MaxName - 1), Name : StrUpTo({"n"}, MaxName - 1)]

\* the bucket names
BckNames == StrUpTo({"b", "c"}, MaxName) \ {<<>>}

\* the object names, with and without folders
ObjNames == StrUpTo({"o", "/"}, MaxName) \ {<<>>}

\* the namespace as it stands in a path: nothing when global, else
\* `@UUID` when of a remote cluster, then `#Name`
NsPath(ns) ==
    IF ns = NsGlobal THEN <<>>
    ELSE <<"/">> \o (IF ns.UUID # <<>> THEN <<"@">> \o ns.UUID ELSE <<>>)
                \o <<"#">> \o ns.Name

\* mi.MakePathFQN(bck, contentType, objName):
\* mpath/@provider[/[@uuid]#namespace]/bucket/%contentType/objName
MakePathFQN(mpath, bck, contentType, objName) ==
    mpath \o <<"/", "@">> \o bck.Provider \o NsPath(bck.Ns)
          \o <<"/">> \o bck.Name
          \o <<"/", "%">> \o contentType
          \o <<"/">> \o objName

\* the first place of the character c in s; 0 when it is not there
IndexByte(s, c) ==
    IF \E i \in 1..Len(s) : s[i] = c
    THEN CHOOSE i \in 1..Len(s) : s[i] = c /\ \A j \in 1..(i - 1) : s[j] # c
    ELSE 0

\* s up to its first separator
Item(s) ==
    IF IndexByte(s, "/") = 0 THEN s ELSE SubSeq(s, 1, IndexByte(s, "/") - 1)

\* s after its first separator; <<>> when it has none
AfterItem(s) ==
    IF IndexByte(s, "/") = 0 THEN <<>>
    ELSE SubSeq(s, IndexByte(s, "/") + 1, Len(s))

\* the mountpath mp is a directory above the path f
IsAbove(mp, f) ==
    /\ Len(f) > Len(mp)
    /\ SubSeq(f, 1, Len(mp)) = mp
    /\ f[Len(mp) + 1] = "/"

\* a mutant of LongestMpath: the shortest of the matching mountpaths
ShortestMpath(matching) ==
    CHOOSE mp \in matching : \A o \in matching : Len(mp) <= Len(o)

\* "multiple mpaths matching, choose the longest"
LongestMpath(matching) ==
    CHOOSE mp \in matching : \A o \in matching : Len(o) <= Len(mp)

\* ParseMpathInfo: the registered mountpath the path is under, and the rest
\* of the path; an error when there is none
ParseMpathInfo(f) ==
    LET matching == {mp \in fqMpaths : IsAbove(mp, f)}
    IN  IF matching = {} THEN [err |-> "nompath", mpath |-> <<>>, rel |-> <<>>]
        ELSE LET mp == LongestMpath(matching)
             IN  [err |-> "nil", mpath |-> mp,
                  rel |-> SubSeq(f, Len(mp) + 2, Len(f))]

\* the error result of ParseFQN
ParseErr(e) == [NoParsed EXCEPT !.err = e]

\* the last two items: /%contentType/objName
ParseContent(mp, prov, ns, name, rest) ==
    LET ct == Item(rest)
        obj == AfterItem(rest)
    IN  IF name = <<>> THEN ParseErr("bucket")
        ELSE IF ct = <<>> \/ ct[1] # "%"
                  \/ Tail(ct) \notin RegisteredContentTypes
        THEN ParseErr("contenttype")
        ELSE IF obj = <<>> THEN ParseErr("objname")
        ELSE [err |-> "nil", mpath |-> mp,
              bck |-> [Name |-> name, Provider |-> prov, Ns |-> ns],
              contentType |-> Tail(ct), objName |-> obj]

\* the item after the provider: a namespace (`#name` or `@uuid#name`), then
\* the bucket, or the bucket at once
ParseBucket(mp, prov, rest) ==
    LET item == Item(rest)
        after == AfterItem(rest)
    IN  IF item = <<>> THEN ParseErr("bucket")
        ELSE IF item[1] = "#"
        THEN ParseContent(mp, prov, [UUID |-> <<>>, Name |-> Tail(item)],
                          Item(after), AfterItem(after))
        ELSE IF item[1] = "@"
        THEN LET ns == Tail(item)
                 at == IndexByte(ns, "#")
             IN  IF at = 0 THEN ParseErr("namespace")
                 ELSE ParseContent(mp, prov,
                                   [UUID |-> SubSeq(ns, 1, at - 1),
                                    Name |-> SubSeq(ns, at + 1, Len(ns))],
                                   Item(after), AfterItem(after))
        ELSE ParseContent(mp, prov, NsGlobal, item, after)

\* fs.ParseFQN
ParseFQN(f) ==
    LET mi == ParseMpathInfo(f)
        item == Item(mi.rel)
    IN  IF mi.err # "nil" THEN ParseErr(mi.err)
        ELSE IF item = <<>> \/ item[1] # "@" \/ Tail(item) \notin Providers
        THEN ParseErr("provider")
        ELSE ParseBucket(mi.mpath, Tail(item), AfterItem(mi.rel))

\* the mountpaths are registered and the arguments are chosen
InitFqnVars ==
    /\ fqMpaths \in MpathSets
    /\ fqArgs \in [mpath : fqMpaths,
                    bck : [Name : BckNames, Provider : Providers,
                           Ns : Namespaces],
                    contentType : RegisteredContentTypes,
                    objName : ObjNames]
    /\ fqn = <<>>
    /\ parsedFQN = NoParsed
    /\ fqPc = "make"

InitFqn ==
    /\ RunInit /\ EncIdle /\ ResIdle /\ GetIdle /\ ObjIdle /\ RspInit
    /\ PutInit /\ InitFqnVars /\ BpIdle

\* fqn := mpaths[tt.mpath].MakePathFQN(tt.bck, tt.contentType, tt.objName)
MakeFQN ==
    /\ fqPc = "make"
    /\ fqn' = MakePathFQN(fqArgs.mpath, fqArgs.bck, fqArgs.contentType,
                          fqArgs.objName)
    /\ fqPc' = "parse"
    /\ UNCHANGED <<fqMpaths, fqArgs, parsedFQN>>
    /\ UNCHANGED notFqnVars

\* parsedFQN, err := fs.ParseFQN(fqn)
ParseBuilt ==
    /\ fqPc = "parse"
    /\ parsedFQN' = ParseFQN(fqn)
    /\ fqPc' = "done"
    /\ UNCHANGED <<fqMpaths, fqArgs, fqn>>
    /\ UNCHANGED notFqnVars

FqnNext ==
    \/ MakeFQN
    \/ ParseBuilt

SpecFqn == InitFqn /\ [][FqnNext]_vars

MaxSlices == 3

\* minimum number of data or parity slices, part_005:38
MinSliceCount == 1

\* maximum number of data or parity slices, part_005:39
MaxSliceCount == 32

\* ECConf.Validate: the error it returns, or "nil"
Validate(c) ==
    IF c.ObjSizeLimit < 0 THEN "invalid"
    ELSE IF c.DataSlices < MinSliceCount \/ c.DataSlices > MaxSliceCount
    THEN "invalid"
    ELSE IF c.ParitySlices < MinSliceCount \/ c.ParitySlices > MaxSliceCount
    THEN "invalid"
    ELSE IF (IF c.BatchSize = 0 THEN 64 ELSE c.BatchSize) < 4
              \/ (IF c.BatchSize = 0 THEN 64 ELSE c.BatchSize) > 128
    THEN "invalid"
    ELSE "nil"

\* ECConf.RequiredEncodeTargets: data slices, parity slices and the object
RequiredEncodeTargets(c) == c.DataSlices + c.ParitySlices + 1

\* `c.ParitySlices > args.TargetCnt`
TooFewForParity(c, tcnt) == c.ParitySlices > tcnt

\* ECConf.ValidateAsProps
ValidateAsProps(c, tcnt) ==
    IF ~c.Enabled THEN "nil"
    ELSE IF Validate(c) # "nil" THEN Validate(c)
    ELSE IF TooFewForParity(c, tcnt) THEN "insufficient"
    ELSE IF tcnt < RequiredEncodeTargets(c) THEN "soft"
    ELSE "nil"

\* the properties and the number of targets are chosen
InitBpVars ==
    /\ bpConf \in [Enabled : BOOLEAN, ObjSizeLimit : {-1, 0},
                    DataSlices : 0..MaxSlices, ParitySlices : 0..MaxSlices,
                    BatchSize : {0, 3, 64}]
    /\ bpTargetCnt \in 0..MaxTargets
    /\ bpErr = "none"
    /\ bpPc = "validate"

InitBp ==
    /\ RunInit /\ EncIdle /\ ResIdle /\ GetIdle /\ ObjIdle /\ RspInit
    /\ PutInit /\ FqnIdle /\ InitBpVars

\* the properties are validated
ValidateProps ==
    /\ bpPc = "validate"
    /\ bpErr' = ValidateAsProps(bpConf, bpTargetCnt)
    /\ bpPc' = "done"
    /\ UNCHANGED <<bpConf, bpTargetCnt>>
    /\ UNCHANGED notBpVars

\* the caller looks at the error: one that --force overrides or not
ForceOverrides == bpErr = "soft"

BpNext == ValidateProps

SpecBp == InitBp /\ [][BpNext]_vars

\* EC is enabled and the configuration itself is valid
ValidEnabled == bpConf.Enabled /\ Validate(bpConf) = "nil"

\* C33: with EC enabled (and a valid configuration), the validation gives an
\* error that --force does not override when the targets are at most the
\* parity slices, an error that --force overrides when they are more than
\* the parity slices and fewer than data + parity + 1, and no error when
\* they are at least data + parity + 1.
C33_HardSoftNone ==
    (bpPc = "done" /\ ValidEnabled) =>
       /\ bpTargetCnt <= bpConf.ParitySlices
            => (bpErr # "nil" /\ ~ForceOverrides)
       /\ (bpConf.ParitySlices < bpTargetCnt
             /\ bpTargetCnt < bpConf.DataSlices + bpConf.ParitySlices + 1)
            => ForceOverrides
       /\ bpTargetCnt >= bpConf.DataSlices + bpConf.ParitySlices + 1
            => bpErr = "nil"

====
